---- MODULE Spec2Model ----
(***************************************************************************)
(* Model of the Brave Search MCP server: the per-endpoint rate limiter and *)
(* the upstream client (apiClient.ts), the argument type guards (tools.ts) *)
(* and the orchestration / dispatch layer (index.ts).                      *)
(*                                                                         *)
(* Every tool invocation is an asynchronous task.  A task runs from one    *)
(* suspension to the next as one action; it is suspended only while its    *)
(* fetch() is outstanding.  The endpoint trackers and the wall clock are   *)
(* shared by all tasks.                                                    *)
(***************************************************************************)
EXTENDS Integers, Sequences, FiniteSets, TLC

\* ------------------------------------------------------------------ bounds

\* The wall clock stops advancing after this many rate-limit windows.
MaxWindows == 1

\* Direct calls of the client draw count and offset from the API's range
\* widened by this much on either side.
InputSpread == 5

\* Direct calls of the POI functions draw every id list up to this length.
MaxIds == 3

\* ------------------------------------------------------- program constants

\* `if (timeSinceLastCall < 1000)`
RateWindowMs == 1000
\* `Math.min(count, 20)`
MaxCount == 20
\* `Math.max(0, Math.min(offset, 9))`
MaxOffset == 9
\* `count = 10`, `count = 5`, `offset = 0` defaults of the tool declarations
DefaultWebCount == 10
DefaultLocalCount == 5
DefaultOffset == 0
\* `throw new BraveApiError("Rate limit exceeded: > 1/second", 429)`
RateLimitStatus == 429
\* `errorText.substring(0, 200)`
DetailChars == 200

\* The tool invocations (tasks), in their order of arrival; two may overlap.
Tasks == {1, 2}

\* Date.now() counts milliseconds from 1970: when the process starts, the
\* clock is at least one rate-limit window past zero.
StartClock == RateWindowMs

\* The wall clock stops advancing here.
MaxClock == StartClock + MaxWindows * RateWindowMs

\* Amounts by which the wall clock advances between two steps.
TickSteps == {RateWindowMs - 1, RateWindowMs}

\* ------------------------------------------------------ JavaScript values

Undefined == [type |-> "undefined", num |-> 0, str |-> "", items |-> <<>>]
Null == [type |-> "null", num |-> 0, str |-> "", items |-> <<>>]
Num(n) == [type |-> "number", num |-> n, str |-> "", items |-> <<>>]
Str(s) == [type |-> "string", num |-> 0, str |-> s, items |-> <<>>]
Arr(xs) == [type |-> "array", num |-> 0, str |-> "", items |-> xs]

\* An arguments object; a key that is absent reads as undefined.
Obj(query, count, offset, ids) ==
    [type |-> "object", query |-> query, count |-> count, offset |-> offset, ids |-> ids]
\* An arguments value that is not an object (undefined, null, a string).
NonObj(type) ==
    [type |-> type, query |-> Undefined, count |-> Undefined, offset |-> Undefined,
     ids |-> Undefined]

\* String.prototype.includes
Includes(s, sub) ==
    \E i \in 1..(Len(s) - Len(sub) + 1) : SubSeq(s, i, i + Len(sub) - 1) = sub

Min(a, b) == IF a < b THEN a ELSE b
Max(a, b) == IF a > b THEN a ELSE b

\* Array.prototype.join
RECURSIVE Join(_, _)
Join(xs, sep) ==
    IF xs = <<>> THEN ""
    ELSE IF Len(xs) = 1 THEN xs[1]
    ELSE xs[1] \o sep \o Join(Tail(xs), sep)

\* ------------------------------------------------------------- tools.ts

isOptionalNumber(v) == v.type = "undefined" \/ v.type = "number"

isBraveWebSearchArgsCountOnly(args) ==
    /\ args.type = "object"
    /\ args.query.type = "string"
    /\ isOptionalNumber(args.count)

isBraveWebSearchArgs(args) ==
    /\ args.type = "object"
    /\ args.query.type = "string"
    /\ isOptionalNumber(args.count)
    /\ isOptionalNumber(args.offset)

isBraveLocalSearchArgs(args) ==
    /\ args.type = "object"
    /\ args.query.type = "string"
    /\ isOptionalNumber(args.count)

isBravePoiDetailsArgsArrayOnly(args) ==
    /\ args.type = "object"
    /\ args.ids.type = "array"

isBravePoiDetailsArgs(args) ==
    /\ args.type = "object"
    /\ args.ids.type = "array"
    /\ \A i \in 1..Len(args.ids.items) : args.ids.items[i].type = "string"

isBravePoiDescriptionsArgs(args) ==
    /\ args.type = "object"
    /\ args.ids.type = "array"
    /\ \A i \in 1..Len(args.ids.items) : args.ids.items[i].type = "string"


\* ----------------------------------------------------------- apiClient.ts

\* The process environment variable NODE_ENV, fixed when the process starts.
NodeEnvs == {"production", "test"}

\* class BraveApiError extends Error; status and details are optional.
BraveApiError(message, status, details) ==
    [name |-> "BraveApiError", message |-> message, status |-> status, details |-> details]
\* A plain Error, as thrown by the dispatcher's own checks.
PlainError(message) ==
    [name |-> "Error", message |-> message, status |-> <<>>, details |-> <<>>]

\* new URL(base + path): the path segments and the search parameters.  An
\* optional parameter is <<>> when it is not set and <<value>> when it is.
BaseUrl(a, b) ==
    [path |-> <<"res", "v1", a, b>>, q |-> <<>>, count |-> <<>>, offset |-> <<>>,
     search_lang |-> <<>>, result_filter |-> <<>>, ids |-> <<>>]

\* url.pathname.split('/'): the pathname starts with '/', so the first piece
\* is the empty string.
PathSegments(url) == <<"">> \o url.path

getEndpointFromUrlFamily(url) ==
    LET pathSegments == PathSegments(url)
    IN pathSegments[Len(pathSegments) - 1]

getEndpointFromUrlBasePath(url) ==
    LET pathSegments == PathSegments(url)
    IN Join(SubSeq(pathSegments, 2, 3), "/")

getEndpointFromUrl(url) ==
    LET pathSegments == PathSegments(url)
        n == Len(pathSegments)
    IN Join(SubSeq(pathSegments, Max(1, n - 1), n), "/")

\* typeof x === 'number' && !isNaN(x)
IsValidNumber(v) == v.type = "number"

fetchWebSearchUrlCountClampBoth(query, count, offset) ==
    [BaseUrl("web", "search") EXCEPT
        !.q = <<query>>,
        !.count = IF IsValidNumber(count)
                  THEN <<ToString(Max(1, Min(count.num, MaxCount)))>> ELSE <<>>,
        !.offset = IF IsValidNumber(offset)
                   THEN <<ToString(Max(0, Min(offset.num, MaxOffset)))>> ELSE <<>>,
        !.result_filter = <<"web">>]

fetchWebSearchUrlOffsetUpperOnly(query, count, offset) ==
    [BaseUrl("web", "search") EXCEPT
        !.q = <<query>>,
        !.count = IF IsValidNumber(count)
                  THEN <<ToString(Min(count.num, MaxCount))>> ELSE <<>>,
        !.offset = IF IsValidNumber(offset)
                   THEN <<ToString(Min(offset.num, MaxOffset))>> ELSE <<>>,
        !.result_filter = <<"web">>]

fetchWebSearchUrl(query, count, offset) ==
    [BaseUrl("web", "search") EXCEPT
        !.q = <<query>>,
        !.count = IF IsValidNumber(count)
                  THEN <<ToString(Min(count.num, MaxCount))>> ELSE <<>>,
        !.offset = IF IsValidNumber(offset)
                   THEN <<ToString(Max(0, Min(offset.num, MaxOffset)))>> ELSE <<>>,
        !.result_filter = <<"web">>]

fetchInitialLocalSearchUrlLocalPath(query, count) ==
    [BaseUrl("local", "search") EXCEPT
        !.q = <<query>>,
        !.search_lang = <<"en">>,
        !.result_filter = <<"locations">>,
        !.count = <<ToString(Min(count.num, MaxCount))>>]

fetchInitialLocalSearchUrl(query, count) ==
    [BaseUrl("web", "search") EXCEPT
        !.q = <<query>>,
        !.search_lang = <<"en">>,
        !.result_filter = <<"locations">>,
        !.count = <<ToString(Min(count.num, MaxCount))>>]

TruthyUnlessNullish(id) == id.type \notin {"null", "undefined"}

\* Boolean(id): null, undefined, the empty string and 0 are falsy.  The
\* declared type of an id is string; a caller may still pass any value.
Truthy(id) ==
    CASE id.type = "string" -> id.str # ""
      [] id.type = "number" -> id.num # 0
      [] id.type \in {"null", "undefined"} -> FALSE
      [] OTHER -> TRUE

\* String(v), as URLSearchParams.append converts a value
ParamString(v) ==
    CASE v.type = "string" -> v.str
      [] v.type = "number" -> ToString(v.num)
      [] OTHER -> v.type

\* ids.filter(Boolean).forEach(id => url.searchParams.append('ids', id))
IdsParams(ids) ==
    LET kept == SelectSeq(ids, Truthy)
    IN [i \in 1..Len(kept) |-> ParamString(kept[i])]

fetchPoiDetailsUrl(ids) ==
    [BaseUrl("local", "pois") EXCEPT !.ids = IdsParams(ids)]

fetchPoiDescriptionsUrl(ids) ==
    [BaseUrl("local", "descriptions") EXCEPT !.ids = IdsParams(ids)]

\* url.searchParams.get('q') || ''
QueryParam(url) == IF url.q = <<>> THEN "" ELSE url.q[1]

NewTracker == [lastCallTime |-> 0, callCount |-> 0]

LimiterBypassedInTest(env, url) == env = "test"

\* The limiter is skipped under NODE_ENV=test unless the query holds 'req'.
LimiterBypassed(env, url) ==
    LET query == QueryParam(url)
        isRateLimitTest == env = "test" /\ Includes(query, "req")
    IN env = "test" /\ ~isRateLimitTest

RateLimitedInclusive(timeSinceLastCall) == timeSinceLastCall <= RateWindowMs

\* The per-second test of checkRateLimit.
RateLimited(timeSinceLastCall) == timeSinceLastCall < RateWindowMs

CommitTrackerTimeOnly(tracker, now) ==
    [lastCallTime |-> now, callCount |-> tracker.callCount]

CommitTrackerCountOnly(tracker, now) ==
    [lastCallTime |-> tracker.lastCallTime, callCount |-> tracker.callCount + 1]

\* The tracker after a call has passed the test.
CommitTracker(tracker, now) ==
    [lastCallTime |-> now, callCount |-> tracker.callCount + 1]

checkRateLimitCommitFirst(tr, env, endpoint, url, now) ==
    IF LimiterBypassed(env, url)
    THEN [verdict |-> "bypass", trackers |-> tr]
    ELSE LET tr1 == IF endpoint \in DOMAIN tr THEN tr
                    ELSE tr @@ (endpoint :> NewTracker)
             tracker == tr1[endpoint]
             timeSinceLastCall == now - tracker.lastCallTime
         IN [verdict |-> IF RateLimited(timeSinceLastCall) THEN "reject" ELSE "accept",
             trackers |-> [tr1 EXCEPT ![endpoint] = CommitTracker(tracker, now)]]

\* checkRateLimit(endpoint, url) run against the tracker map tr, in an
\* environment env, when Date.now() reads now.  It has no await: the test and
\* the commit are one synchronous block.  verdict is "bypass" (limiter
\* skipped), "reject" (BraveApiError thrown) or "accept".
checkRateLimit(tr, env, endpoint, url, now) ==
    IF LimiterBypassed(env, url)
    THEN [verdict |-> "bypass", trackers |-> tr]
    ELSE LET tr1 == IF endpoint \in DOMAIN tr THEN tr
                    ELSE tr @@ (endpoint :> NewTracker)
             tracker == tr1[endpoint]
             timeSinceLastCall == now - tracker.lastCallTime
         IN IF RateLimited(timeSinceLastCall)
            THEN [verdict |-> "reject", trackers |-> tr1]
            ELSE [verdict |-> "accept",
                  trackers |-> [tr1 EXCEPT ![endpoint] = CommitTracker(tracker, now)]]

RateLimitError == BraveApiError("Rate limit exceeded: > 1/second", <<RateLimitStatus>>, <<>>)

\* String.prototype.substring(0, n)
Substring0(s, n) == SubSeq(s, 1, Min(Len(s), n))

HttpErrorEllipsisWhenCut(status, statusText, errorText) ==
    BraveApiError("API request failed", <<status>>,
                  <<statusText \o ": " \o Substring0(errorText, DetailChars)
                       \o (IF Len(errorText) > DetailChars THEN "..." ELSE "")>>)

\* The error of a response whose ok flag is false.
HttpError(status, statusText, errorText) ==
    BraveApiError("API request failed", <<status>>,
                  <<statusText \o ": " \o Substring0(errorText, DetailChars) \o "...">>)

\* The error of a fetch() that rejects with cause message causeMessage.
NetworkError(causeMessage) ==
    BraveApiError("Network error calling Brave API: " \o causeMessage, <<>>, <<>>)


\* A response body of the declared interfaces.  BraveWeb: web and locations
\* are optional (<<>> when absent, <<results>> when present) and a location
\* id may be null; BravePoiResponse: results; BraveDescription: descriptions,
\* as the list of its (id, description) entries in key order.
Body(web, locations, results, descriptions) ==
    [web |-> web, locations |-> locations, results |-> results,
     descriptions |-> descriptions]
EmptyBody == Body(<<>>, <<>>, <<>>, <<>>)

NoError == PlainError("")

\* No answer from fetch() yet.
NoReply ==
    [kind |-> "none", data |-> EmptyBody, status |-> 0, statusText |-> "",
     errorText |-> "", cause |-> ""]

\* What an awaited client call has come to: still pending on the network,
\* resolved with a body, or rejected with an error.
Pending == [state |-> "pending", data |-> EmptyBody, error |-> NoError]
Resolved(data) == [state |-> "resolved", data |-> data, error |-> NoError]
Rejected(error) == [state |-> "rejected", data |-> EmptyBody, error |-> error]

\* The tracker of an endpoint as checkRateLimit reads it: an endpoint without
\* a tracker is given a new one first.
TrackerOf(tr, endpoint) == IF endpoint \in DOMAIN tr THEN tr[endpoint] ELSE NewTracker

\* One invocation of a client function: its arguments, the limiter's verdict
\* on it ("none" when the function returned before callBraveApi), whether
\* fetch() was called for it, how the request ended and the error the call
\* was rejected with.  For the record: committed is the lastCallTime the
\* limiter stored for the call, <<>> when it stored none, and reply is what
\* fetch() came back with, less the JSON body.
ClientCall(fn, query, count, offset, ids) ==
    [fn |-> fn, query |-> query, count |-> count, offset |-> offset, ids |-> ids,
     endpoint |-> "", verdict |-> "none", requested |-> FALSE,
     url |-> BaseUrl("", ""), outcome |-> "none",
     error |-> NoError, committed |-> <<>>, reply |-> NoReply]

\* callBraveApi(url) up to its fetch(): the limiter runs first, and only a
\* call that it lets through reaches fetch().  w is the running task's view:
\* the shared trackers, the clock reading, NODE_ENV and the task's record m.
callBraveApi(w, call, url) ==
    LET endpoint == getEndpointFromUrl(url)
        r == checkRateLimit(w.trackers, w.env, endpoint, url, w.now)
        thrown == r.verdict = "reject"
        entry == [call EXCEPT !.endpoint = endpoint, !.verdict = r.verdict,
                              !.url = url, !.requested = ~thrown,
                              !.outcome = IF thrown THEN "none" ELSE "pending",
                              !.error = IF thrown THEN RateLimitError ELSE NoError,
                              !.committed =
                                  IF r.verdict = "accept"
                                  THEN <<r.trackers[endpoint].lastCallTime>> ELSE <<>>]
    IN [w EXCEPT !.trackers = r.trackers,
                 !.m.calls = Append(@, entry),
                 !.settled = IF thrown THEN Rejected(RateLimitError) ELSE Pending]

\* A client function that returns without calling callBraveApi.
ReturnEarly(w, call, data) ==
    [w EXCEPT !.m.calls = Append(@, call), !.settled = Resolved(data)]

fetchWebSearch(w, query, count, offset) ==
    callBraveApi(w, ClientCall("fetchWebSearch", query, count, offset, <<>>),
                 fetchWebSearchUrl(query, count, offset))

fetchInitialLocalSearch(w, query, count) ==
    callBraveApi(w, ClientCall("fetchInitialLocalSearch", query, count, Undefined, <<>>),
                 fetchInitialLocalSearchUrl(query, count))

fetchPoiDetailsFilterFirst(w, ids) ==
    LET call == ClientCall("fetchPoiDetails", "", Undefined, Undefined, ids)
    IN IF Len(IdsParams(ids)) = 0 THEN ReturnEarly(w, call, EmptyBody)
       ELSE callBraveApi(w, call, fetchPoiDetailsUrl(ids))

fetchPoiDetailsAlwaysCalls(w, ids) ==
    callBraveApi(w, ClientCall("fetchPoiDetails", "", Undefined, Undefined, ids),
                 fetchPoiDetailsUrl(ids))

fetchPoiDetails(w, ids) ==
    LET call == ClientCall("fetchPoiDetails", "", Undefined, Undefined, ids)
    IN IF Len(ids) = 0 THEN ReturnEarly(w, call, EmptyBody)
       ELSE callBraveApi(w, call, fetchPoiDetailsUrl(ids))

fetchPoiDescriptions(w, ids) ==
    LET call == ClientCall("fetchPoiDescriptions", "", Undefined, Undefined, ids)
    IN IF Len(ids) = 0 THEN ReturnEarly(w, call, EmptyBody)
       ELSE callBraveApi(w, call, fetchPoiDescriptionsUrl(ids))

callBraveApiSettleRethrowing(reply) ==
    CASE reply.kind = "ok" -> Resolved(reply.data)
      [] reply.kind = "http" ->
            Rejected(HttpError(reply.status, reply.statusText, reply.errorText))
      [] reply.kind = "network" -> Rejected(NetworkError(reply.cause))
      [] OTHER -> Rejected(PlainError(reply.cause))

\* callBraveApi(url) from the moment its fetch() settles.  reply.kind is
\* "ok" (2xx, JSON body), "http" (response.ok false) or "network" (fetch
\* rejected).
callBraveApiSettle(reply) ==
    CASE reply.kind = "ok" -> Resolved(reply.data)
      [] reply.kind = "http" ->
            Rejected(HttpError(reply.status, reply.statusText, reply.errorText))
      [] OTHER -> Rejected(NetworkError(reply.cause))


\* -------------------------------------------------------------- index.ts

\* x || 'N/A' for a string x
OrNA(x) == IF x = "" THEN "N/A" ELSE x

formatWebResult(r) ==
    "Title: " \o OrNA(r.title) \o "\nDescription: " \o OrNA(r.description)
        \o "\nURL: " \o OrNA(r.url)

\* data.web?.results || []
WebResultsOf(data) == IF data.web = <<>> THEN <<>> ELSE data.web[1]

formatWebResults(data) ==
    LET results == WebResultsOf(data)
    IN IF Len(results) = 0 THEN "No web results found."
       ELSE Join([i \in 1..Len(results) |-> formatWebResult(results[i])], "\n\n")

\* descData.descriptions[id] || 'No description available.'
DescriptionOf(descriptions, id) ==
    LET hits == SelectSeq(descriptions, LAMBDA d : d.id = id)
    IN IF hits = <<>> \/ hits[1].description = "" THEN "No description available."
       ELSE hits[1].description

\* One POI block.  The address, phone, rating, price and hours lines are
\* formatted from the POI record alone, like the name line, and are left out.
formatPoi(poi, descriptions) ==
    "Name: " \o OrNA(poi.name) \o "\nDescription: "
        \o DescriptionOf(descriptions, poi.id) \o "\n"

formatLocalResults(poisData, descData) ==
    LET results == poisData.results
    IN IF Len(results) = 0 THEN "No local results found."
       ELSE Join([i \in 1..Len(results) |-> formatPoi(results[i], descData.descriptions)],
                 "\n---\n")

formatDescription(d) == "ID: " \o d.id \o "\nDescription: " \o d.description

errorMessageAlwaysDetails(error) ==
    IF error.name = "BraveApiError"
    THEN "Brave API Error ("
            \o (IF error.status = <<>> THEN "N/A" ELSE ToString(error.status[1]))
            \o "): " \o error.message
            \o " - " \o (IF error.details = <<>> THEN "undefined" ELSE error.details[1])
    ELSE "Internal Server Error: " \o error.message

\* The text of the dispatcher's catch block.
errorMessage(error) ==
    IF error.name = "BraveApiError"
    THEN "Brave API Error ("
            \o (IF error.status = <<>> THEN "N/A" ELSE ToString(error.status[1]))
            \o "): " \o error.message
            \o (IF error.details # <<>> /\ error.details[1] # ""
                THEN " - " \o error.details[1] ELSE "")
    ELSE "Internal Server Error: " \o error.message

NoResponse == [isError |-> FALSE, text |-> ""]

\* A task that has not been started.
IdleTask ==
    [pc |-> "idle", name |-> "", args |-> NonObj("undefined"), stage |-> "none",
     query |-> "", count |-> Undefined, ids |-> <<>>, locations |-> <<>>,
     poisData |-> EmptyBody, fallback |-> "none", calls |-> <<>>,
     error |-> NoError, response |-> NoResponse]

\* callToolHandler's `return { content: [{type: "text", text}], isError: false }`
Return(w, text) ==
    [w EXCEPT !.m.pc = "done", !.m.response = [isError |-> FALSE, text |-> text]]

ThrowAfterRateLimitCheck(w, error) ==
    [w EXCEPT !.trackers = checkRateLimit(w.trackers, w.env, "web/search",
                                          BaseUrl("web", "search"), w.now).trackers,
              !.m.pc = "done", !.m.error = error,
              !.m.response = [isError |-> TRUE, text |-> errorMessage(error)]]

ThrowUnformatted(w, error) ==
    [w EXCEPT !.m.pc = "done", !.m.error = error]

\* callToolHandler's catch block
Throw(w, error) ==
    [w EXCEPT !.m.pc = "done", !.m.error = error,
              !.m.response = [isError |-> TRUE, text |-> errorMessage(error)]]

LocationIdsOfTruthy(data) ==
    LET results == IF data.locations = <<>> THEN <<>> ELSE data.locations[1]
    IN SelectSeq(results, LAMBDA id : id.type = "string" /\ id.str # "")

\* webData.locations?.results?.map(r => r.id).filter(id => id != null) || []
LocationIdsOf(data) ==
    LET results == IF data.locations = <<>> THEN <<>> ELSE data.locations[1]
    IN SelectSeq(results, LAMBDA id : id.type # "null" /\ id.type # "undefined")

RECURSIVE Resume(_, _, _)

\* `await` of the client call that stage has just made: the task suspends
\* when the call went to the network and goes on at once otherwise.
Await(w, stage) ==
    IF w.settled.state = "pending"
    THEN [w EXCEPT !.m.pc = "inflight", !.m.stage = stage]
    ELSE Resume(w, stage, w.settled)

\* performWebSearch(query, count, offset) up to its await; stage is "web" for
\* the tool and "fallback" for a call from performLocalSearch.
performWebSearch(w, stage, query, count, offset) ==
    Await(fetchWebSearch(w, query, count, offset), stage)

performWebSearchResumeSwallowing(w, s) ==
    IF s.state = "rejected"
    THEN IF w.m.fallback # "none" THEN Return(w, formatWebResults(EmptyBody))
         ELSE Throw(w, s.error)
    ELSE Return(w, formatWebResults(s.data))

performWebSearchResumeRetryOnce(w, s) ==
    LET n == Len(w.m.calls)
        last == w.m.calls[n]
    IN IF s.state = "rejected"
       THEN IF n < 2 /\ w.m.name = "brave_web_search"
            THEN performWebSearch(w, "web", last.query, last.count, last.offset)
            ELSE Throw(w, s.error)
       ELSE Return(w, formatWebResults(s.data))

\* performWebSearch from its await on
performWebSearchResume(w, s) ==
    IF s.state = "rejected" THEN Throw(w, s.error)
    ELSE Return(w, formatWebResults(s.data))

FallbackToWebSearchDefaultCount(w, why) ==
    performWebSearch([w EXCEPT !.m.fallback = why], "fallback",
                     w.m.query, Num(DefaultWebCount), Num(DefaultOffset))

\* performLocalSearch's two `return performWebSearch(query, count)`
FallbackToWebSearch(w, why) ==
    performWebSearch([w EXCEPT !.m.fallback = why], "fallback",
                     w.m.query, w.m.count, Num(DefaultOffset))

\* performLocalSearch(query, count) up to its first await
performLocalSearch(w, query, count) ==
    Await(fetchInitialLocalSearch([w EXCEPT !.m.query = query, !.m.count = count],
                                  query, count), "loc")

InTryDetailsOnly(stage) == stage = "details"

InTryWholeFunction(stage) == TRUE

\* The awaits of performLocalSearch that are inside its try block.
InTry(stage) == stage \in {"details", "desc"}

performLocalSearchResumeConcurrent(w, stage, s) ==
    IF s.state = "rejected"
    THEN IF InTry(stage) THEN FallbackToWebSearch(w, "catch") ELSE Throw(w, s.error)
    ELSE CASE stage = "loc" ->
                LET locationIds == LocationIdsOf(s.data)
                    w1 == [w EXCEPT !.m.ids = locationIds,
                                    !.m.locations = s.data.locations]
                IN IF Len(locationIds) = 0 THEN FallbackToWebSearch(w1, "noIds")
                   ELSE Await(fetchPoiDescriptions(fetchPoiDetails(w1, locationIds),
                                                   locationIds), "desc")
           [] OTHER -> Return(w, formatLocalResults(w.m.poisData, s.data))

\* performLocalSearch from the await of stage ("loc", "details", "desc") on
performLocalSearchResume(w, stage, s) ==
    IF s.state = "rejected"
    THEN IF InTry(stage) THEN FallbackToWebSearch(w, "catch") ELSE Throw(w, s.error)
    ELSE CASE stage = "loc" ->
                LET locationIds == LocationIdsOf(s.data)
                    w1 == [w EXCEPT !.m.ids = locationIds,
                                    !.m.locations = s.data.locations]
                IN IF Len(locationIds) = 0 THEN FallbackToWebSearch(w1, "noIds")
                   ELSE Await(fetchPoiDetails(w1, locationIds), "details")
           [] stage = "details" ->
                Await(fetchPoiDescriptions([w EXCEPT !.m.poisData = s.data], w.m.ids),
                      "desc")
           [] OTHER -> Return(w, formatLocalResults(w.m.poisData, s.data))

performPoiDetailsNoGuard(w, ids) ==
    Await(fetchPoiDetails([w EXCEPT !.m.ids = ids], ids), "poiDetails")

performPoiDetails(w, ids) ==
    IF Len(ids) = 0 THEN Return(w, "No IDs provided to fetch details.")
    ELSE Await(fetchPoiDetails([w EXCEPT !.m.ids = ids], ids), "poiDetails")

performPoiDetailsResumeWithFallback(w, s) ==
    IF s.state = "rejected" THEN FallbackToWebSearch(w, "catch")
    ELSE Return(w, formatLocalResults(s.data, EmptyBody))

\* performPoiDetails from its await on
performPoiDetailsResume(w, s) ==
    IF s.state = "rejected" THEN Throw(w, s.error)
    ELSE Return(w, formatLocalResults(s.data, EmptyBody))

performPoiDescriptions(w, ids) ==
    IF Len(ids) = 0 THEN Return(w, "No IDs provided to fetch descriptions.")
    ELSE Await(fetchPoiDescriptions([w EXCEPT !.m.ids = ids], ids), "poiDesc")

performPoiDescriptionsResume(w, s) ==
    IF s.state = "rejected" THEN Throw(w, s.error)
    ELSE IF Len(s.data.descriptions) = 0
         THEN Return(w, "No descriptions found for the provided IDs.")
         ELSE Return(w, Join([i \in 1..Len(s.data.descriptions) |->
                                 formatDescription(s.data.descriptions[i])], "\n\n"))

Resume(w, stage, s) ==
    CASE stage \in {"web", "fallback"} -> performWebSearchResume(w, s)
      [] stage \in {"loc", "details", "desc"} -> performLocalSearchResume(w, stage, s)
      [] stage = "poiDetails" -> performPoiDetailsResume(w, s)
      [] OTHER -> performPoiDescriptionsResume(w, s)

OrDefaultNever(v, default) == v

\* const { count = 10 } = args: the default replaces undefined only
OrDefault(v, default) == IF v.type = "undefined" THEN Num(default) ELSE v

\* const { ids } = args
IdsOf(args) == args.ids.items

InvalidArgumentsUnnamed(name, shape) ==
    PlainError("Invalid arguments. Expected: " \o shape)

InvalidArguments(name, shape) ==
    PlainError("Invalid arguments for tool \"" \o name \o "\". Expected: " \o shape)

UpperLetters == "ABCDEFGHIJKLMNOPQRSTUVWXYZ"
LowerLetters == "abcdefghijklmnopqrstuvwxyz"

LowerChar(c) ==
    IF \E i \in 1..Len(UpperLetters) : SubSeq(UpperLetters, i, i) = c
    THEN LET i == CHOOSE i \in 1..Len(UpperLetters) : SubSeq(UpperLetters, i, i) = c
         IN SubSeq(LowerLetters, i, i)
    ELSE c

RECURSIVE ToLowerCase(_)
ToLowerCase(s) ==
    IF Len(s) = 0 THEN ""
    ELSE LowerChar(SubSeq(s, 1, 1)) \o ToLowerCase(SubSeq(s, 2, Len(s)))

ToolNameMatchesIgnoreCase(name, label) == ToLowerCase(name) = ToLowerCase(label)

\* `switch (name) { case "<label>": ... }` compares with ===
ToolNameMatches(name, label) == name = label

\* callToolHandler(request) up to its first await
callToolHandler(w0, name, args) ==
    LET w == [w0 EXCEPT !.m.name = name, !.m.args = args]
    IN CASE ToolNameMatches(name, "brave_web_search") ->
              IF ~isBraveWebSearchArgs(args)
              THEN Throw(w, InvalidArguments(name,
                             "{ query: string, count?: number, offset?: number }"))
              ELSE performWebSearch(w, "web", args.query.str,
                                    OrDefault(args.count, DefaultWebCount),
                                    OrDefault(args.offset, DefaultOffset))
         [] ToolNameMatches(name, "brave_local_search") ->
              IF ~isBraveLocalSearchArgs(args)
              THEN Throw(w, InvalidArguments(name, "{ query: string, count?: number }"))
              ELSE performLocalSearch(w, args.query.str,
                                      OrDefault(args.count, DefaultLocalCount))
         [] ToolNameMatches(name, "brave_poi_details") ->
              IF ~isBravePoiDetailsArgs(args)
              THEN Throw(w, InvalidArguments(name, "{ ids: string[] }"))
              ELSE performPoiDetails(w, IdsOf(args))
         [] ToolNameMatches(name, "brave_poi_descriptions") ->
              IF ~isBravePoiDescriptionsArgs(args)
              THEN Throw(w, InvalidArguments(name, "{ ids: string[] }"))
              ELSE performPoiDescriptions(w, IdsOf(args))
         [] OTHER -> Throw(w, PlainError("Unknown tool requested: " \o name))


\* ------------------------------------------------------------ the system

VARIABLES
    clock,      \* what Date.now() returns
    NODE_ENV,   \* process.env.NODE_ENV
    trackers,   \* endpointTrackers: endpoint id -> {lastCallTime, callCount}
    task        \* per invocation: position, locals, client calls made, response

vars == <<clock, NODE_ENV, trackers, task>>

KnownTools ==
    {"brave_web_search", "brave_local_search", "brave_poi_details",
     "brave_poi_descriptions"}

\* Tool names a caller may send: the declared ones and one that differs from a
\* declared name in case only.
ToolNames == KnownTools \cup {"Brave_Web_Search"}

\* Arguments a caller may send.
ArgValues ==
    { NonObj("undefined"),
      Obj(Str("pizza"), Undefined, Undefined, Undefined),
      Obj(Str("req1"), Num(50), Num(20), Undefined),
      Obj(Undefined, Num(10), Undefined, Undefined),
      Obj(Undefined, Undefined, Undefined, Arr(<<>>)),
      Obj(Undefined, Undefined, Undefined, Arr(<<Str("b")>>)) }

OkReply(data) ==
    [kind |-> "ok", data |-> data, status |-> 200, statusText |-> "OK",
     errorText |-> "", cause |-> ""]
HttpReply(status, statusText, errorText) ==
    [kind |-> "http", data |-> EmptyBody, status |-> status, statusText |-> statusText,
     errorText |-> errorText, cause |-> ""]
NetworkReply(cause) ==
    [kind |-> "network", data |-> EmptyBody, status |-> 0, statusText |-> "",
     errorText |-> "", cause |-> cause]

FailureReplies ==
    { HttpReply(401, "Unauthorized", "Bad Key"), NetworkReply("socket hang up") }

WebResult == [title |-> "Pizza", description |-> "", url |-> "http://example.com"]
Poi == [id |-> "b", name |-> "Place B"]

\* Bodies the upstream may answer with, per client function.
BodiesFor(fn) ==
    CASE fn = "fetchWebSearch" ->
            { EmptyBody, Body(<< <<WebResult>> >>, <<>>, <<>>, <<>>) }
      [] fn = "fetchInitialLocalSearch" ->
            { EmptyBody,
              Body(<<>>, << <<>> >>, <<>>, <<>>),
              Body(<<>>, << <<Null>> >>, <<>>, <<>>),
              Body(<<>>, << <<Str("b"), Null, Str("")>> >>, <<>>, <<>>) }
      [] fn = "fetchPoiDetails" ->
            { EmptyBody, Body(<<>>, <<>>, <<Poi>>, <<>>) }
      [] OTHER ->
            { EmptyBody,
              Body(<<>>, <<>>, <<>>, <<[id |-> "b", description |-> "About B"]>>) }

RepliesFor(fn) == {OkReply(d) : d \in BodiesFor(fn)} \cup FailureReplies

Init ==
    /\ clock = StartClock
    /\ NODE_ENV \in NodeEnvs
    /\ trackers = <<>>
    /\ task = [t \in Tasks |-> IdleTask]

\* The running task's view of the state.
World(t) ==
    [trackers |-> trackers, now |-> clock, env |-> NODE_ENV,
     m |-> task[t], settled |-> Pending]

\* The state after task t has run to its next suspension, ending as w.
Commit(t, w) ==
    /\ trackers' = w.trackers
    /\ task' = [task EXCEPT ![t] = w.m]
    /\ UNCHANGED <<clock, NODE_ENV>>

\* call_tool arrives: callToolHandler runs until it suspends or responds.
\* Invocations are numbered in their order of arrival.
CallTool(t) ==
    /\ task[t].pc = "idle"
    /\ IF t = 1 THEN TRUE ELSE task[t - 1].pc # "idle"
    /\ \E name \in ToolNames, args \in ArgValues :
          Commit(t, callToolHandler(World(t), name, args))

SettleRefundingFailures(t) ==
    /\ task[t].pc = "inflight"
    /\ LET m == task[t]
           k == Len(m.calls)
           e == m.calls[k].endpoint
       IN \E reply \in RepliesFor(m.calls[k].fn) :
             LET s == callBraveApiSettle(reply)
                 refunded == IF reply.kind # "ok" /\ e \in DOMAIN trackers
                             THEN [trackers EXCEPT ![e] = NewTracker] ELSE trackers
             IN Commit(t, Resume([World(t) EXCEPT !.trackers = refunded,
                                                  !.m.calls[k].outcome = reply.kind,
                                                  !.m.calls[k].error = s.error,
                                                  !.m.calls[k].reply = reply],
                                 m.stage, s))

\* The outstanding fetch() of task t settles and the task runs on until it
\* suspends again or responds.
Settle(t) ==
    /\ task[t].pc = "inflight"
    /\ LET m == task[t]
           k == Len(m.calls)
       IN \E reply \in RepliesFor(m.calls[k].fn) :
             LET s == callBraveApiSettle(reply)
             IN Commit(t, Resume([World(t) EXCEPT !.m.calls[k].outcome = reply.kind,
                                                  !.m.calls[k].error = s.error,
                                                  !.m.calls[k].reply = reply],
                                 m.stage, s))

\* Time passes.
Tick ==
    /\ \E d \in TickSteps : clock + d <= MaxClock /\ clock' = clock + d
    /\ UNCHANGED <<NODE_ENV, trackers, task>>

Next ==
    \/ \E t \in Tasks : CallTool(t)
    \/ \E t \in Tasks : Settle(t)
    \/ Tick

Spec == Init /\ [][Next]_vars

\* The same system when every upstream request is eventually answered or
\* fails: a pending fetch() does not stay pending for ever.
LiveNext ==
    \/ CallTool(1)
    \/ Settle(1)
    \/ Tick

LiveSpec == Init /\ [][LiveNext]_vars /\ WF_vars(Settle(1))

\* The client called directly, as its unit tests call it: fetchWebSearch with
\* a count and an offset that are numbers in and around the API's range, the
\* out-of-range values 50, -5 and 20, or undefined.
CountValues ==
    {Undefined} \cup {Num(n) : n \in ((0 - InputSpread)..(MaxCount + InputSpread)) \cup {50}}
OffsetValues ==
    {Undefined}
        \cup {Num(n) : n \in ((0 - InputSpread)..(MaxOffset + InputSpread)) \cup {0 - 5, 20}}

\* fetchWebSearch(query, count, offset) called directly, up to its fetch().
FetchWebSearchDirect ==
    /\ task[1].pc = "idle"
    /\ \E count \in CountValues, offset \in OffsetValues :
          LET w == fetchWebSearch(World(1), "pizza", count, offset)
          IN Commit(1, [w EXCEPT !.m.pc = "called"])

\* Entries a caller may put in an id list: ids, the empty string, null and
\* undefined.
IdEntries == {Str("poi1"), Str("poi3"), Str(""), Null, Undefined}

\* Every id list of up to MaxIds entries, and the list of the client's unit
\* test.
IdLists ==
    UNION {[1..n -> IdEntries] : n \in 0..MaxIds}
        \cup {<<Str("poi1"), Null, Str("poi3"), Undefined>>}

\* A client function called directly has returned a promise: settled already
\* when it returned early, pending on its fetch() otherwise.
Called(w) ==
    [w EXCEPT !.m.pc = IF w.settled.state = "pending" THEN "called" ELSE "returned",
              !.m.poisData = w.settled.data]

\* fetchPoiDetails(ids) called directly, up to its fetch().
FetchPoiDetailsDirect ==
    /\ task[1].pc = "idle"
    /\ \E ids \in IdLists : Commit(1, Called(fetchPoiDetails(World(1), ids)))

\* fetchPoiDescriptions(ids) called directly, up to its fetch().
FetchPoiDescriptionsDirect ==
    /\ task[1].pc = "idle"
    /\ \E ids \in IdLists : Commit(1, Called(fetchPoiDescriptions(World(1), ids)))

ClientNext ==
    \/ FetchWebSearchDirect
    \/ FetchPoiDetailsDirect
    \/ FetchPoiDescriptionsDirect

ClientSpec == Init /\ [][ClientNext]_vars

\* One invocation dispatched with arguments of every shape a caller may send:
\* each key absent, null, a number, a string or an array.
ObjectValue == [type |-> "object", num |-> 0, str |-> "", items |-> <<>>]
QueryValues == {Undefined, Null, Num(1), Str("pizza")}
CountArgValues == {Undefined, Null, Num(3), Str("3")}
OffsetArgValues == {Undefined, Null, Num(2), Str("2")}
IdsValues ==
    { Undefined, Null, Str("a"), Arr(<<>>), Arr(<<Str("")>>), Arr(<<Str("a")>>),
      Arr(<<Str("a"), Str("b")>>), Arr(<<Str("a"), Null>>), Arr(<<Num(7)>>),
      Arr(<<Str("a"), ObjectValue>>) }

WideArgs ==
    {Obj(q, c, o, ids) : q \in QueryValues, c \in CountArgValues,
                         o \in OffsetArgValues, ids \in IdsValues}
        \cup {NonObj("undefined"), NonObj("null"), NonObj("string"), NonObj("number")}

\* call_tool arrives with any of these arguments for a declared tool.
Dispatch ==
    /\ task[1].pc = "idle"
    /\ \E name \in KnownTools, args \in WideArgs :
          Commit(1, callToolHandler(World(1), name, args))

DispatchSpec == Init /\ [][Dispatch]_vars

\* The three tools that make one client call, invoked while the upstream fails
\* in every way callBraveApi can meet: besides a non-2xx answer and a rejected
\* fetch(), a 2xx answer whose response.json() rejects ("badjson") and a
\* non-2xx answer whose response.text() rejects ("badbody").  Both land in
\* callBraveApi's catch block like a rejected fetch().
JsonFailureReply(cause) ==
    [kind |-> "badjson", data |-> EmptyBody, status |-> 200, statusText |-> "OK",
     errorText |-> "", cause |-> cause]
BodyFailureReply(status, statusText, cause) ==
    [kind |-> "badbody", data |-> EmptyBody, status |-> status,
     statusText |-> statusText, errorText |-> "", cause |-> cause]

AnyReplies ==
    {OkReply(EmptyBody)} \cup FailureReplies
        \cup { JsonFailureReply("Unexpected token < in JSON at position 0"),
               BodyFailureReply(502, "Bad Gateway", "terminated") }

SingleCallTools == {"brave_web_search", "brave_poi_details", "brave_poi_descriptions"}

SingleCallArgs ==
    { Obj(Str("req1"), Undefined, Undefined, Undefined),
      Obj(Undefined, Undefined, Undefined, Arr(<<Str("b")>>)) }

InvokeSingle(t) ==
    /\ task[t].pc = "idle"
    /\ IF t = 1 THEN TRUE ELSE task[t - 1].pc # "idle"
    /\ \E name \in SingleCallTools, args \in SingleCallArgs :
          Commit(t, callToolHandler(World(t), name, args))

SettleAny(t) ==
    /\ task[t].pc = "inflight"
    /\ LET m == task[t]
           k == Len(m.calls)
       IN \E reply \in AnyReplies :
             LET s == callBraveApiSettle(reply)
             IN Commit(t, Resume([World(t) EXCEPT !.m.calls[k].outcome = reply.kind,
                                                  !.m.calls[k].error = s.error,
                                                  !.m.calls[k].reply = reply],
                                 m.stage, s))

UpstreamFailureNext ==
    \/ \E t \in Tasks : InvokeSingle(t)
    \/ \E t \in Tasks : SettleAny(t)
    \/ Tick

UpstreamFailureSpec == Init /\ [][UpstreamFailureNext]_vars

\* The client called directly twice, the limiter reset between or around the
\* calls, as the client's unit tests do.
DirectQueries == {"pizza", "req1"}
DirectIdLists == {<<>>, <<Str("poi1")>>}

RECURSIVE Repeat(_, _)
Repeat(s, n) ==
    IF n = 0 THEN ""
    ELSE LET half == Repeat(s, n \div 2)
         IN IF n % 2 = 0 THEN half \o half ELSE half \o half \o s

\* What fetch() may come back with: success, non-2xx responses whose body is
\* empty, short, exactly DetailChars long and longer, and a transport failure.
DirectReplies ==
    { OkReply(EmptyBody),
      HttpReply(400, "Bad Request", "Invalid request parameters"),
      HttpReply(404, "Not Found", ""),
      HttpReply(500, "Internal Server Error", Repeat("x", DetailChars)),
      HttpReply(503, "Service Unavailable", Repeat("y", DetailChars + 1)),
      NetworkReply("Network connection failed") }

\* The direct calls the running task may make.
DirectCalls(w) ==
    {fetchWebSearch(w, q, Num(DefaultWebCount), Num(DefaultOffset)) : q \in DirectQueries}
        \cup {fetchInitialLocalSearch(w, q, Num(DefaultLocalCount)) : q \in DirectQueries}
        \cup {fetchPoiDetails(w, ids) : ids \in DirectIdLists}
        \cup {fetchPoiDescriptions(w, ids) : ids \in DirectIdLists}

\* A client function is called directly and runs up to its fetch().
DirectCall(t) ==
    /\ task[t].pc = "idle"
    /\ IF t = 1 THEN TRUE ELSE task[t - 1].pc # "idle"
    /\ \E w \in DirectCalls(World(t)) : Commit(t, Called(w))

\* The fetch() of a direct call settles: callBraveApi returns or throws.
SettleDirect(t) ==
    /\ task[t].pc = "called"
    /\ LET k == Len(task[t].calls)
       IN \E reply \in DirectReplies :
             LET s == callBraveApiSettle(reply)
             IN Commit(t, [World(t) EXCEPT !.m.calls[k].outcome = reply.kind,
                                           !.m.calls[k].error = s.error,
                                           !.m.calls[k].reply = reply,
                                           !.m.pc = "settled",
                                           !.m.poisData = s.data])

ResetRateLimiterCountsOnly ==
    /\ trackers' = [e \in DOMAIN trackers |-> [trackers[e] EXCEPT !.callCount = 0]]
    /\ UNCHANGED <<clock, NODE_ENV, task>>

\* _resetRateLimiterForTest(): endpointTrackers.clear()
ResetRateLimiter ==
    /\ trackers' = <<>>
    /\ UNCHANGED <<clock, NODE_ENV, task>>

ClientSeqNext ==
    \/ \E t \in Tasks : DirectCall(t)
    \/ \E t \in Tasks : SettleDirect(t)
    \/ ResetRateLimiter
    \/ Tick

ClientSeqSpec == Init /\ [][ClientSeqNext]_vars


\* ------------------------------------------------------------ properties

\* The endpoint id of a request, read off its URL: the last two path segments.
PathKey(url) == url.path[Len(url.path) - 1] \o "/" \o url.path[Len(url.path)]

\* The positions of the client calls task t makes in a step.
NewCalls(t) == (Len(task[t].calls) + 1)..Len(task'[t].calls)

\* now - lastCallTime for a call made in a step: the clock against the tracker
\* the step found for the call's endpoint (a new tracker when it found none).
Delta(c) == clock - TrackerOf(trackers, PathKey(c.url)).lastCallTime

ExpectedRateLimitError ==
    [name |-> "BraveApiError", message |-> "Rate limit exceeded: > 1/second",
     status |-> <<429>>, details |-> <<>>]

IsRejected(c) == c.verdict = "reject" /\ ~c.requested /\ c.error = ExpectedRateLimitError
IsLetThrough(c) == c.verdict # "reject" /\ c.requested

\* C1 as stated: every call to an endpoint that has a tracker (one it finds,
\* or one the call creates) is rejected with the 429 BraveApiError when
\* now - lastCallTime < 1000 for that tracker, and is let through when
\* now - lastCallTime >= 1000.
C1_Original ==
    [][\A t \in Tasks : \A i \in NewCalls(t) :
          LET c == task'[t].calls[i]
          IN (c.verdict # "none" /\ PathKey(c.url) \in DOMAIN trackers') =>
                IF Delta(c) < 1000 THEN IsRejected(c) ELSE IsLetThrough(c)]_vars

\* C1 amended: the limiter is skipped exactly when NODE_ENV is "test" and the
\* request's q parameter does not contain 'req'; every other call is rejected
\* with the 429 BraveApiError when now - lastCallTime < 1000 and is accepted,
\* and its tracker committed, when now - lastCallTime >= 1000.
C1_RateLimitDecision ==
    [][\A t \in Tasks : \A i \in NewCalls(t) :
          LET c == task'[t].calls[i]
              skipped == NODE_ENV = "test" /\ ~Includes(QueryParam(c.url), "req")
          IN c.verdict # "none" =>
                /\ (c.verdict = "bypass") <=> skipped
                /\ ~skipped =>
                      IF Delta(c) < 1000 THEN IsRejected(c)
                      ELSE /\ c.verdict = "accept"
                           /\ c.requested
                           /\ c.committed = <<clock>>]_vars

\* C1 witness: an endpoint whose second call was accepted exactly 1000 ms
\* after its first, and a call to the same endpoint that was rejected.
C1_Witness ==
    \E e \in DOMAIN trackers :
        /\ trackers[e] = [lastCallTime |-> 2000, callCount |-> 2]
        /\ clock = 2000
        /\ \E t \in Tasks : \E i \in 1..Len(task[t].calls) :
              task[t].calls[i].endpoint = e /\ task[t].calls[i].verdict = "reject"

\* All client calls made so far, as (task, position) pairs.
AllCalls == UNION {{<<t, i>> : i \in 1..Len(task[t].calls)} : t \in Tasks}

\* C2: for every endpoint, the lastCallTime values committed for two different
\* accepted calls are at least 1000 ms apart; in particular two calls that run
\* the limiter at the same instant are never both accepted.
C2_AcceptedCallsApart ==
    \A p \in AllCalls, q \in AllCalls :
        LET c == task[p[1]].calls[p[2]]
            d == task[q[1]].calls[q[2]]
        IN (p # q /\ c.verdict = "accept" /\ d.verdict = "accept"
                /\ PathKey(c.url) = PathKey(d.url))
           => /\ c.committed # <<>> /\ d.committed # <<>>
              /\ \/ c.committed[1] - d.committed[1] >= 1000
                 \/ d.committed[1] - c.committed[1] >= 1000

\* C2 witness: while the first invocation's accepted request is in flight,
\* the second invocation's call to the same endpoint, made at the same
\* instant, has been rejected.
C2_Witness ==
    /\ task[1].pc = "inflight"
    /\ Len(task[2].calls) >= 1
    /\ LET c == task[1].calls[Len(task[1].calls)]
           d == task[2].calls[1]
       IN /\ c.verdict = "accept" /\ d.verdict = "reject"
          /\ c.endpoint = d.endpoint
          /\ c.committed = <<clock>>

\* C3: a call rejected by the limiter issues no network request and leaves
\* its endpoint's lastCallTime and callCount as they were.
C3_RejectedCallChangesNothing ==
    [][\A t \in Tasks : \A i \in NewCalls(t) :
          LET c == task'[t].calls[i]
          IN c.verdict = "reject" =>
                /\ ~c.requested /\ c.outcome = "none"
                /\ TrackerOf(trackers', PathKey(c.url)) = TrackerOf(trackers, PathKey(c.url))]_vars

\* C3 witness: a rejected call on an endpoint whose tracker has counted a call.
C3_Witness ==
    \E t \in Tasks : \E i \in 1..Len(task[t].calls) :
        LET c == task[t].calls[i]
        IN /\ c.verdict = "reject" /\ ~c.requested
           /\ c.endpoint \in DOMAIN trackers
           /\ trackers[c.endpoint].callCount = 1
           /\ task[t].pc = "done"

\* C4: the tracker of an endpoint id is created or changed only in a step in
\* which a call to that endpoint id is made; a call to one endpoint id never
\* touches the tracker of another.
C4_EndpointsIndependent ==
    [][\A e \in DOMAIN trackers' :
          (e \notin DOMAIN trackers \/ trackers'[e] # trackers[e])
          => \E t \in Tasks : \E i \in NewCalls(t) :
                PathKey(task'[t].calls[i].url) = e]_vars

\* C4 witness: one invocation whose calls to web/search, local/pois and
\* local/descriptions were all accepted at the same instant.
C4_Witness ==
    \E t \in Tasks :
        /\ Len(task[t].calls) >= 3
        /\ \A i \in 1..3 : task[t].calls[i].verdict = "accept"
                           /\ task[t].calls[i].committed = task[t].calls[1].committed
        /\ task[t].calls[1].endpoint = "web/search"
        /\ task[t].calls[2].endpoint = "local/pois"
        /\ task[t].calls[3].endpoint = "local/descriptions"


\* The invocations of brave_local_search that got past argument validation.
LocalSearches ==
    {t \in Tasks : task[t].name = "brave_local_search" /\ Len(task[t].calls) >= 1}

\* The positions of task t's calls of client function fn.
CallsTo(t, fn) == {i \in 1..Len(task[t].calls) : task[t].calls[i].fn = fn}

\* The non-null ids of a location-search response, in response order.
NonNullIds(locations) ==
    LET results == IF locations = <<>> THEN <<>> ELSE locations[1]
    IN SelectSeq(results, LAMBDA id : id.type = "string")

\* The count the caller asked for: the supplied number, or 5.
RequestedLocalCount(t) ==
    IF task[t].args.count.type = "number" THEN task[t].args.count.num ELSE 5

\* c is a web-search call with task t's original query and count and offset 0.
IsFallbackCall(t, c) ==
    /\ c.fn = "fetchWebSearch"
    /\ c.query = task[t].args.query.str
    /\ c.count.type = "number" /\ c.count.num = RequestedLocalCount(t)
    /\ c.offset.type = "number" /\ c.offset.num = 0

\* The location search of task t came back with no non-null id.
ZeroIdsFound(t) ==
    /\ task[t].calls[1].outcome = "ok"
    /\ NonNullIds(task[t].locations) = <<>>

\* C5: when the location search yields zero non-null ids, the invocation makes
\* exactly one web-search call, with the original query and count and offset 0,
\* and no POI-details and no POI-descriptions call.
C5_ZeroIdsOneWebSearch ==
    \A t \in LocalSearches :
        ZeroIdsFound(t) =>
            /\ Len(task[t].calls) = 2
            /\ CallsTo(t, "fetchWebSearch") = {2}
            /\ IsFallbackCall(t, task[t].calls[2])
            /\ CallsTo(t, "fetchPoiDetails") = {}
            /\ CallsTo(t, "fetchPoiDescriptions") = {}

\* C5 witness: a location search that returned one location with a null id,
\* followed by a fallback web search that has answered.
C5_Witness ==
    \E t \in LocalSearches :
        /\ ZeroIdsFound(t)
        /\ task[t].locations = << <<Null>> >>
        /\ task[t].pc = "done"
        /\ ~task[t].response.isError

\* C6 as stated: with the limiter active, a local search whose location search
\* returns zero ids, and whose every request the upstream answers with
\* success, ends with isError=false and the web-search output.
C6_FallbackSucceeds ==
    \A t \in LocalSearches :
        LET m == task[t]
        IN (/\ m.pc = "done"
            /\ ZeroIdsFound(t)
            /\ \A i \in 1..Len(m.calls) : m.calls[i].verdict # "bypass"
            /\ \A i \in 1..Len(m.calls) : m.calls[i].outcome \notin {"http", "network"})
           => /\ ~m.response.isError
              /\ m.response.text \in {"No web results found.",
                     "Title: Pizza\nDescription: N/A\nURL: http://example.com"}

\* C7 as stated: a local search never answers with the local no-results
\* message.
C7_NeverLocalNoResults ==
    \A t \in LocalSearches :
        task[t].pc = "done" => task[t].response.text # "No local results found."

\* A POI-details or POI-descriptions call that failed: rejected by the
\* limiter, answered with a non-2xx status, or lost in transport.
EnrichmentFailed(c) ==
    /\ c.fn \in {"fetchPoiDetails", "fetchPoiDescriptions"}
    /\ c.verdict = "reject" \/ c.outcome \in {"http", "network"}

CallFailed(c) == c.verdict = "reject" \/ c.outcome \in {"http", "network"}

\* C8: in a local search with at least one location id, a failed POI-details
\* or POI-descriptions fetch is followed by exactly one web-search call with
\* the original query and count and offset 0; the failed call is not made
\* again, a failed details fetch is followed by no descriptions fetch, and the
\* response is decided by the web search, not by the failed fetch.
C8_EnrichmentFailureFallsBack ==
    \A t \in LocalSearches :
        LET m == task[t]
            failed == {i \in 1..Len(m.calls) : EnrichmentFailed(m.calls[i])}
        IN failed # {} =>
              /\ Len(m.ids) >= 1
              /\ Cardinality(failed) = 1
              /\ Cardinality(CallsTo(t, "fetchPoiDetails")) = 1
              /\ Cardinality(CallsTo(t, "fetchPoiDescriptions"))
                    = (IF EnrichmentFailed(m.calls[2]) THEN 0 ELSE 1)
              /\ \A i \in failed :
                    /\ Len(m.calls) = i + 1
                    /\ CallsTo(t, "fetchWebSearch") = {i + 1}
                    /\ IsFallbackCall(t, m.calls[i + 1])
                    /\ m.pc = "done" =>
                          /\ m.response.isError <=> CallFailed(m.calls[i + 1])
                          /\ m.response.isError => m.error = m.calls[i + 1].error

\* C8 witness: the details fetch succeeded, the descriptions fetch was
\* answered with a non-2xx status, and the fallback web search succeeded.
C8_Witness ==
    \E t \in LocalSearches :
        /\ Len(task[t].calls) = 4
        /\ task[t].calls[2].outcome = "ok"
        /\ task[t].calls[3].outcome = "http"
        /\ task[t].calls[4].outcome = "ok"
        /\ task[t].pc = "done"
        /\ ~task[t].response.isError

RateLimitText == "Brave API Error (429): Rate limit exceeded: > 1/second"

\* C10 as stated: a call rejected by the limiter is the invocation's last
\* upstream call, and the invocation responds with isError=true and the 429
\* text.
C10_Original ==
    \A t \in Tasks : \A i \in 1..Len(task[t].calls) :
        task[t].calls[i].verdict = "reject" =>
            /\ i = Len(task[t].calls)
            /\ task[t].pc = "done"
            /\ task[t].response = [isError |-> TRUE, text |-> RateLimitText]

\* C10 amended: a call rejected by the limiter is the invocation's last
\* upstream call and the invocation responds with isError=true and the 429
\* text, except when the rejected call is the POI-details or POI-descriptions
\* fetch of brave_local_search: that one is followed by exactly one more
\* call, the fallback web search.
C10_RateLimitTerminal ==
    \A t \in Tasks : \A i \in 1..Len(task[t].calls) :
        LET m == task[t]
        IN m.calls[i].verdict = "reject" =>
              IF /\ m.name = "brave_local_search"
                 /\ m.calls[i].fn \in {"fetchPoiDetails", "fetchPoiDescriptions"}
              THEN /\ Len(m.calls) = i + 1
                   /\ m.calls[i + 1].fn = "fetchWebSearch"
              ELSE /\ i = Len(m.calls)
                   /\ m.pc = "done"
                   /\ m.response = [isError |-> TRUE, text |-> RateLimitText]

\* C10 witness: a local search whose details fetch was rejected and whose
\* fallback web search was rejected too, which ended the invocation.
C10_Witness ==
    \E t \in LocalSearches :
        /\ Len(task[t].calls) = 3
        /\ task[t].calls[2].verdict = "reject"
        /\ task[t].calls[3].verdict = "reject"
        /\ task[t].pc = "done"
        /\ task[t].response.text = RateLimitText


\* The four declared tool names.
DeclaredNames ==
    {"brave_web_search", "brave_local_search", "brave_poi_details",
     "brave_poi_descriptions"}

\* args satisfies the validator of the declared tool name.
Validates(name, args) ==
    CASE name = "brave_web_search" -> isBraveWebSearchArgs(args)
      [] name = "brave_local_search" -> isBraveLocalSearchArgs(args)
      [] name = "brave_poi_details" -> isBravePoiDetailsArgs(args)
      [] OTHER -> isBravePoiDescriptionsArgs(args)

\* The invocations that have arrived.
Started == {t \in Tasks : task[t].pc # "idle"}

\* C11: an invocation whose tool name is not one of the four declared names,
\* compared case-sensitively, responds with isError=true and a text containing
\* 'Unknown tool requested: <name>' whatever its arguments, and makes no
\* upstream call.
C11_UnknownToolRejected ==
    \A t \in Started :
        LET m == task[t]
        IN m.name \notin DeclaredNames =>
              /\ m.pc = "done"
              /\ m.response.isError
              /\ Includes(m.response.text, "Unknown tool requested: " \o m.name)
              /\ m.calls = <<>>

\* C11 witness: 'Brave_Web_Search', which differs from a declared name in case
\* only, was refused with arguments that are valid for brave_web_search, and
\* again with no arguments.
C11_Witness ==
    /\ task[1].name = "Brave_Web_Search" /\ task[1].args.query.type = "string"
    /\ task[1].response.text
          = "Internal Server Error: Unknown tool requested: Brave_Web_Search"
    /\ task[2].name = "Brave_Web_Search" /\ task[2].args.type = "undefined"
    /\ task[2].response.isError

\* C12 as stated: a known tool invoked without an arguments object responds
\* with isError=true and a text containing 'Tool arguments are required'.
C12_MissingArgumentsMessage ==
    \A t \in Started :
        LET m == task[t]
        IN (m.name \in DeclaredNames /\ m.args.type = "undefined") =>
              /\ m.pc = "done"
              /\ m.response.isError
              /\ Includes(m.response.text, "Tool arguments are required")

\* The expected shape the dispatcher names for each tool.
ExpectedShape(name) ==
    CASE name = "brave_web_search" -> "{ query: string, count?: number, offset?: number }"
      [] name = "brave_local_search" -> "{ query: string, count?: number }"
      [] OTHER -> "{ ids: string[] }"

InvalidArgumentsText(name) ==
    "Internal Server Error: Invalid arguments for tool \"" \o name
        \o "\". Expected: " \o ExpectedShape(name)

\* C13: for each of the four tools, an arguments object that does not satisfy
\* the tool's validator is answered with isError=true and the text 'Invalid
\* arguments for tool "<name>"' followed by the tool's expected shape.
C13_InvalidArgumentsNamed ==
    \A t \in Started :
        LET m == task[t]
        IN (m.name \in DeclaredNames /\ m.args.type = "object"
                /\ ~Validates(m.name, m.args)) =>
              /\ m.pc = "done"
              /\ m.response.isError
              /\ Includes(m.response.text, "Invalid arguments for tool \"" \o m.name \o "\"")
              /\ m.response.text = InvalidArgumentsText(m.name)

\* C13 witness: brave_local_search refused for {count: 10} (no query) and
\* brave_poi_details refused for an object without ids.
C13_Witness ==
    /\ task[1].name = "brave_local_search"
    /\ task[1].args.count.type = "number" /\ task[1].args.query.type = "undefined"
    /\ task[1].response.isError
    /\ task[2].name = "brave_poi_details"
    /\ task[2].args.type = "object" /\ task[2].args.ids.type = "undefined"
    /\ task[2].response.isError

\* m ended in an unknown-tool or an argument-validation failure.
IsLocalFailure(m) ==
    m.name \notin DeclaredNames \/ ~Validates(m.name, m.args)

\* C14: the step in which an invocation ends in an unknown-tool or an
\* argument-validation failure makes no client call and leaves every endpoint
\* tracker as it was.
C14_LocalFailureTouchesNothing ==
    [][\A t \in Tasks :
          (task[t].pc = "idle" /\ task'[t].pc # "idle" /\ IsLocalFailure(task'[t]))
          => /\ task'[t].pc = "done"
             /\ task'[t].calls = <<>>
             /\ trackers' = trackers]_vars

\* C14 witness: while the first invocation's accepted request is in flight and
\* its endpoint's tracker has counted it, the second invocation has ended in a
\* validation failure without a call.
C14_Witness ==
    /\ task[1].pc = "inflight"
    /\ \E e \in DOMAIN trackers : trackers[e] = [lastCallTime |-> clock, callCount |-> 1]
    /\ task[2].pc = "done"
    /\ task[2].name \in DeclaredNames
    /\ IsLocalFailure(task[2])
    /\ task[2].calls = <<>>


\* The orchestration function of m returned its text: it made no client call,
\* or the last client call it made did not fail.
ReturnedNormally(m) ==
    m.calls = <<>> \/ ~CallFailed(m.calls[Len(m.calls)])

\* C15: every invocation either waits on a request that is in flight or has
\* responded; a response has a boolean isError and one non-empty text, and
\* isError=false holds exactly when the name is declared, the arguments
\* validate and the orchestration function returned its text normally.
C15_AlwaysEnvelope ==
    \A t \in Started :
        LET m == task[t]
        IN /\ m.pc \in {"inflight", "done"}
           /\ m.pc = "inflight" =>
                 /\ Len(m.calls) >= 1
                 /\ m.calls[Len(m.calls)].outcome = "pending"
           /\ m.pc = "done" =>
                 /\ m.response.isError \in BOOLEAN
                 /\ m.response.text # ""
                 /\ ~m.response.isError <=>
                       /\ m.name \in DeclaredNames
                       /\ Validates(m.name, m.args)
                       /\ ReturnedNormally(m)

\* C15 witness: one invocation answered isError=true after a transport
\* failure, the other answered isError=false after upstream success.
C15_Witness ==
    /\ task[1].pc = "done" /\ task[1].response.isError
    /\ Len(task[1].calls) = 1 /\ task[1].calls[1].outcome = "network"
    /\ task[2].pc = "done" /\ ~task[2].response.isError
    /\ Len(task[2].calls) = 1 /\ task[2].calls[1].outcome = "ok"

\* The text expected for the failure that ended m: the BraveApiError form with
\* the status or N/A, and ' - <details>' only for the failure that has details
\* (a non-2xx response); the Internal Server Error form for the dispatcher's
\* own errors.
ExpectedErrorText(m) ==
    IF m.name \notin DeclaredNames
    THEN "Internal Server Error: Unknown tool requested: " \o m.name
    ELSE IF ~Validates(m.name, m.args) THEN InvalidArgumentsText(m.name)
    ELSE LET c == m.calls[Len(m.calls)]
         IN CASE c.verdict = "reject" ->
                    "Brave API Error (429): Rate limit exceeded: > 1/second"
              [] c.outcome = "http" ->
                    "Brave API Error (401): API request failed - Unauthorized: Bad Key..."
              [] OTHER ->
                    "Brave API Error (N/A): Network error calling Brave API: socket hang up"

\* C16: an invocation that ends in a failure answers isError=true with the
\* text 'Brave API Error (<status or N/A>): <message>', followed by
\* ' - <details>' only when the error has details, for a BraveApiError, and
\* 'Internal Server Error: <message>' for every other failure.
C16_ErrorTextFormat ==
    \A t \in Started :
        LET m == task[t]
        IN (m.pc = "done" /\ (m.response.isError \/ ~ReturnedNormally(m)
                                 \/ IsLocalFailure(m)))
           => /\ m.response.isError
              /\ m.response.text = ExpectedErrorText(m)

\* C16 witness: one invocation ended by a non-2xx response (status and
\* details in the text), the other by a transport failure (N/A, no details).
C16_Witness ==
    /\ task[1].pc = "done" /\ task[2].pc = "done"
    /\ task[1].response.text
          = "Brave API Error (401): API request failed - Unauthorized: Bad Key..."
    /\ task[2].response.text
          = "Brave API Error (N/A): Network error calling Brave API: socket hang up"

\* C17: brave_web_search, brave_poi_details and brave_poi_descriptions make at
\* most one upstream call; when it fails the invocation ends there with
\* isError=true and that call's error.
C17_NoFallbackOutsideLocalSearch ==
    \A t \in Started :
        LET m == task[t]
        IN (m.name \in {"brave_web_search", "brave_poi_details", "brave_poi_descriptions"})
           => /\ Len(m.calls) <= 1
              /\ (Len(m.calls) = 1 /\ CallFailed(m.calls[1])) =>
                    /\ m.pc = "done"
                    /\ m.response.isError
                    /\ m.error = m.calls[1].error

\* C17 witness: one brave_poi_details invocation ended by a non-2xx response
\* and another ended by a limiter rejection, one call each.
C17_Witness ==
    /\ task[1].name = "brave_poi_details" /\ task[1].pc = "done"
    /\ Len(task[1].calls) = 1 /\ task[1].calls[1].outcome = "http"
    /\ task[1].response.isError
    /\ task[2].name = "brave_poi_details" /\ task[2].pc = "done"
    /\ Len(task[2].calls) = 1 /\ task[2].calls[1].verdict = "reject"
    /\ task[2].response.isError


\* v is the number n.
IsNumber(v, n) == v.type = "number" /\ v.num = n

\* The value a client function must get for an optional argument: the
\* supplied one, or the number n when it was not supplied.
GivenOrNumber(got, supplied, n) ==
    IF supplied.type = "undefined" THEN IsNumber(got, n) ELSE got = supplied

\* C18: brave_web_search calls the web-search client function with the
\* caller's query, with count 10 and offset 0 when they are not supplied and
\* with the supplied values unchanged otherwise; brave_local_search calls the
\* location search with count 5 when it is not supplied and with the supplied
\* value unchanged otherwise.
C18_DefaultsAtDispatch ==
    \A t \in Started :
        LET m == task[t]
        IN Len(m.calls) >= 1 =>
              /\ m.name = "brave_web_search" =>
                    /\ m.calls[1].fn = "fetchWebSearch"
                    /\ m.calls[1].query = m.args.query.str
                    /\ GivenOrNumber(m.calls[1].count, m.args.count, 10)
                    /\ GivenOrNumber(m.calls[1].offset, m.args.offset, 0)
                    /\ m.args.count.type = "undefined" => m.calls[1].url.count = <<"10">>
                    /\ m.args.offset.type = "undefined" => m.calls[1].url.offset = <<"0">>
              /\ m.name = "brave_local_search" =>
                    /\ m.calls[1].fn = "fetchInitialLocalSearch"
                    /\ m.calls[1].query = m.args.query.str
                    /\ GivenOrNumber(m.calls[1].count, m.args.count, 5)
                    /\ m.args.count.type = "undefined" => m.calls[1].url.count = <<"5">>

\* C18 witness: a web search without count and offset that called the client
\* with 10 and 0, and a web search with count 50 and offset 20 that called it
\* with 50 and 20.
C18_Witness ==
    /\ task[1].name = "brave_web_search" /\ task[1].args.count.type = "undefined"
    /\ Len(task[1].calls) = 1
    /\ IsNumber(task[1].calls[1].count, 10) /\ IsNumber(task[1].calls[1].offset, 0)
    /\ task[2].name = "brave_web_search" /\ Len(task[2].calls) = 1
    /\ IsNumber(task[2].args.count, 50) /\ IsNumber(task[2].args.offset, 20)
    /\ IsNumber(task[2].calls[1].count, 50) /\ IsNumber(task[2].calls[1].offset, 20)


\* The web-search requests of the first invocation.
WebSearchRequests ==
    {i \in 1..Len(task[1].calls) : task[1].calls[i].fn = "fetchWebSearch"}

\* C19: for every integer count the request's count parameter is
\* min(count, 20) - values below 1 pass through - and a request made with
\* count undefined has no count parameter.
C19_CountClampedAbove ==
    \A i \in WebSearchRequests :
        LET c == task[1].calls[i]
        IN IF c.count.type = "number"
           THEN c.url.count = <<ToString(IF c.count.num < 20 THEN c.count.num ELSE 20)>>
           ELSE c.count.type = "undefined" /\ c.url.count = <<>>

\* C19 witness: a request made with count 50 carries count=20.
C19_Witness ==
    \E i \in WebSearchRequests :
        /\ IsNumber(task[1].calls[i].count, 50)
        /\ task[1].calls[i].url.count = <<"20">>
        /\ task[1].calls[i].requested

\* C20: for every integer offset the request's offset parameter is
\* max(0, min(offset, 9)), one of 0..9, and a request made with offset
\* undefined has no offset parameter.
C20_OffsetClamped ==
    \A i \in WebSearchRequests :
        LET c == task[1].calls[i]
            n == c.offset.num
        IN IF c.offset.type = "number"
           THEN /\ c.url.offset = <<ToString(IF n < 0 THEN 0 ELSE IF n > 9 THEN 9 ELSE n)>>
                /\ c.url.offset[1] \in {ToString(k) : k \in 0..9}
           ELSE c.offset.type = "undefined" /\ c.url.offset = <<>>

\* C20 witness: a request made with offset -5 carries offset=0.
C20_Witness ==
    \E i \in WebSearchRequests :
        /\ IsNumber(task[1].calls[i].offset, 0 - 5)
        /\ task[1].calls[i].url.offset = <<"0">>
        /\ task[1].calls[i].requested


\* The POI requests of the first invocation.
PoiRequests ==
    {i \in 1..Len(task[1].calls) :
        task[1].calls[i].fn \in {"fetchPoiDetails", "fetchPoiDescriptions"}}

\* The entries of an id list that are not falsy - not null, not undefined, not
\* the empty string - in the list's order, repeats included.
NonFalsy(ids) ==
    LET kept == SelectSeq(ids, LAMBDA v : v.type = "string" /\ v.str # "")
    IN [i \in 1..Len(kept) |-> kept[i].str]

\* C22: a POI-details or POI-descriptions call with a non-empty id list issues
\* a request whose repeated ids parameters are exactly the list's non-falsy
\* entries, in order and with repeats.
C22_IdsParamsAreNonFalsyEntries ==
    \A i \in PoiRequests :
        LET c == task[1].calls[i]
        IN Len(c.ids) >= 1 =>
              /\ c.requested
              /\ c.url.ids = NonFalsy(c.ids)

\* C22 witness: fetchPoiDetails(['poi1', null, 'poi3', undefined]) issued a
\* request with ids=poi1&ids=poi3.
C22_Witness ==
    \E i \in PoiRequests :
        /\ task[1].calls[i].fn = "fetchPoiDetails"
        /\ task[1].calls[i].ids = <<Str("poi1"), Null, Str("poi3"), Undefined>>
        /\ task[1].calls[i].url.ids = <<"poi1", "poi3">>
        /\ task[1].calls[i].requested

\* The POI functions of the client.
PoiFunctions == {"fetchPoiDetails", "fetchPoiDescriptions"}

\* C21: fetchPoiDetails([]) and fetchPoiDescriptions([]) return their empty
\* result at once: no request is issued, the limiter is not run, and no
\* tracker is created or changed.
C21_EmptyIdsTouchNothing ==
    [][\A t \in Tasks : \A i \in NewCalls(t) :
          LET c == task'[t].calls[i]
          IN (c.fn \in PoiFunctions /\ c.ids = <<>>) =>
                /\ c.verdict = "none"
                /\ ~c.requested
                /\ trackers' = trackers
                /\ task'[t].pc = "returned"
                /\ task'[t].poisData.results = <<>>
                /\ task'[t].poisData.descriptions = <<>>]_vars

\* C21 witness: fetchPoiDetails([]) returned, and a call of
\* fetchPoiDetails(['poi1']) at the same instant was accepted as the first
\* call its endpoint has seen.
C21_Witness ==
    /\ clock = StartClock
    /\ Len(task[1].calls) = 1
    /\ task[1].calls[1].fn = "fetchPoiDetails"
    /\ task[1].calls[1].ids = <<>>
    /\ task[1].pc = "returned"
    /\ Len(task[2].calls) = 1
    /\ task[2].calls[1].fn = "fetchPoiDetails"
    /\ task[2].calls[1].ids = <<Str("poi1")>>
    /\ task[2].calls[1].verdict = "accept"
    /\ task[2].calls[1].committed = <<StartClock>>
    /\ "local/pois" \in DOMAIN trackers
    /\ trackers["local/pois"] = [lastCallTime |-> StartClock, callCount |-> 1]

\* The first n characters of s, all of s when it is shorter.
FirstChars(s, n) == IF Len(s) <= n THEN s ELSE SubSeq(s, 1, n)

\* C23: a response that is not a success makes the call fail with a
\* BraveApiError carrying the response's status and, as details, the status
\* text, ': ', the first 200 characters of the body and '...', the dots being
\* appended whether or not the body was cut; a transport failure makes it fail
\* with a BraveApiError without status and details whose message wraps the
\* cause's message.
C23_FailureErrors ==
    \A p \in AllCalls :
        LET c == task[p[1]].calls[p[2]]
        IN /\ c.reply.kind = "http" =>
                 c.error = [name |-> "BraveApiError",
                            message |-> "API request failed",
                            status |-> <<c.reply.status>>,
                            details |-> <<c.reply.statusText \o ": "
                                            \o FirstChars(c.reply.errorText, 200)
                                            \o "...">>]
           /\ c.reply.kind = "network" =>
                 c.error = [name |-> "BraveApiError",
                            message |-> "Network error calling Brave API: "
                                           \o c.reply.cause,
                            status |-> <<>>,
                            details |-> <<>>]

\* C23 witness: one call failed on a 400 whose short body is kept whole and
\* still followed by the dots, another on a 503 whose 201-character body was
\* cut to 200.
C23_Witness ==
    /\ Len(task[1].calls) = 1
    /\ task[1].calls[1].reply.kind = "http"
    /\ task[1].calls[1].error.status = <<400>>
    /\ task[1].calls[1].error.details =
           <<"Bad Request: Invalid request parameters...">>
    /\ Len(task[2].calls) = 1
    /\ task[2].calls[1].reply.kind = "http"
    /\ Len(task[2].calls[1].reply.errorText) = 201
    /\ task[2].calls[1].error.status = <<503>>
    /\ Len(task[2].calls[1].error.details[1]) = Len("Service Unavailable: ") + 203

\* C28 as stated: once no tracker exists, the next call to any endpoint
\* creates the endpoint's tracker and is accepted.
C28_Original ==
    [][\A t \in Tasks : \A i \in NewCalls(t) :
          LET c == task'[t].calls[i]
          IN (c.endpoint # "" /\ c.endpoint \notin DOMAIN trackers) =>
                /\ c.verdict = "accept"
                /\ c.requested
                /\ c.endpoint \in DOMAIN trackers'
                /\ trackers'[c.endpoint] = [lastCallTime |-> clock, callCount |-> 1]]_vars

\* C28 amended: the reset leaves no tracker at all; the next call to an
\* endpoint is never rejected, whatever the clock (>= 1000) and however
\* recently the endpoint was called before the reset.  Under NODE_ENV=test
\* with a q parameter that does not contain 'req' the limiter is skipped and
\* no tracker is created; otherwise the call is taken as the endpoint's first:
\* it is accepted and its tracker is [lastCallTime = now, callCount = 1].
C28_FirstCallAfterReset ==
    [][/\ (task' = task /\ clock' = clock /\ trackers' # trackers) => trackers' = <<>>
       /\ \A t \in Tasks : \A i \in NewCalls(t) :
             LET c == task'[t].calls[i]
                 skipped == NODE_ENV = "test" /\ ~Includes(QueryParam(c.url), "req")
             IN (c.endpoint # "" /\ c.endpoint \notin DOMAIN trackers) =>
                   /\ c.requested
                   /\ IF skipped
                      THEN c.verdict = "bypass" /\ trackers' = trackers
                      ELSE /\ c.verdict = "accept"
                           /\ c.committed = <<clock>>
                           /\ DOMAIN trackers' = DOMAIN trackers \cup {c.endpoint}
                           /\ trackers'[c.endpoint] =
                                  [lastCallTime |-> clock, callCount |-> 1]]_vars

\* C28 witness: two calls to one endpoint were both accepted at the same
\* instant, the second as the first call after a reset.
C28_Witness ==
    /\ Len(task[1].calls) = 1
    /\ Len(task[2].calls) = 1
    /\ task[1].calls[1].endpoint = task[2].calls[1].endpoint
    /\ task[1].calls[1].verdict = "accept"
    /\ task[2].calls[1].verdict = "accept"
    /\ task[1].calls[1].committed = <<StartClock>>
    /\ task[2].calls[1].committed = <<StartClock>>
    /\ trackers[task[2].calls[1].endpoint] =
           [lastCallTime |-> StartClock, callCount |-> 1]

\* A value that is undefined or a number.
UndefinedOrNumber(v) == v.type \in {"undefined", "number"}

\* The invocation was answered with the invalid-arguments error of its tool.
RefusedAsInvalid(m) ==
    /\ m.pc = "done"
    /\ m.response.isError
    /\ m.response.text = InvalidArgumentsText(m.name)
    /\ m.calls = <<>>

\* C24: the web-search and the local-search validator accept exactly the
\* non-null objects whose query is a string and whose count and offset (for
\* local search: count) are each undefined or a number; other keys of the
\* object play no part, and null, undefined and values that are not objects
\* are refused.
C24_SearchArgsValidators ==
    \A t \in Started :
        LET m == task[t]
            accepted ==
                /\ m.args.type = "object"
                /\ m.args.query.type = "string"
                /\ UndefinedOrNumber(m.args.count)
                /\ m.name = "brave_web_search" => UndefinedOrNumber(m.args.offset)
        IN m.name \in {"brave_web_search", "brave_local_search"} =>
              (RefusedAsInvalid(m) <=> ~accepted)

\* C24 witness: brave_local_search went on to its location search with
\* {query: 'pizza', count: 3, offset: '2', ids: [7]}, whose offset and ids keys
\* are not part of its shape.
C24_Witness ==
    /\ task[1].name = "brave_local_search"
    /\ task[1].args = Obj(Str("pizza"), Num(3), Str("2"), Arr(<<Num(7)>>))
    /\ Len(task[1].calls) = 1
    /\ task[1].calls[1].fn = "fetchInitialLocalSearch"
    /\ task[1].calls[1].requested
    /\ ~task[1].response.isError

\* The client calls made for the two POI tools.
PoiToolCalls ==
    {p \in AllCalls : task[p[1]].name \in {"brave_poi_details", "brave_poi_descriptions"}}

\* C25: the two POI validators accept exactly the non-null objects whose ids
\* is an array all of whose elements are strings, the empty array included;
\* hence no id that is not a string is ever passed to the client by a POI tool.
C25_PoiArgsValidators ==
    /\ \A t \in Started :
          LET m == task[t]
              accepted ==
                  /\ m.args.type = "object"
                  /\ m.args.ids.type = "array"
                  /\ \A i \in 1..Len(m.args.ids.items) :
                        m.args.ids.items[i].type = "string"
          IN m.name \in {"brave_poi_details", "brave_poi_descriptions"} =>
                (RefusedAsInvalid(m) <=> ~accepted)
    /\ \A p \in PoiToolCalls :
          LET c == task[p[1]].calls[p[2]]
          IN \A i \in 1..Len(c.ids) : c.ids[i].type = "string"

\* C25 witness: brave_poi_details refused {ids: ['a', null]}.
C25_Witness ==
    /\ task[1].name = "brave_poi_details"
    /\ task[1].args.ids = Arr(<<Str("a"), Null>>)
    /\ RefusedAsInvalid(task[1])

\* The request of call c has been answered or has failed, or was never sent.
Over(c) == c.outcome \in {"ok", "http", "network"} \/ ~c.requested

\* C26: within one invocation at most one upstream request is outstanding at
\* any time, and only the latest call can be the outstanding one; the
\* descriptions request of a location search is issued only after its details
\* request was answered, and a fallback web search only after every earlier
\* request of the invocation was answered or failed.
C26_OneRequestAtATime ==
    \A t \in Tasks :
        LET m == task[t]
            n == Len(m.calls)
            outstanding == {i \in 1..n : m.calls[i].outcome = "pending"}
        IN /\ Cardinality(outstanding) <= 1
           /\ outstanding \subseteq {n}
           /\ outstanding # {} <=> m.pc = "inflight"
           /\ m.name = "brave_local_search" =>
                 \A i \in 1..n :
                     /\ m.calls[i].fn = "fetchPoiDescriptions" =>
                           /\ i > 1
                           /\ m.calls[i - 1].fn = "fetchPoiDetails"
                           /\ m.calls[i - 1].outcome = "ok"
                     /\ (i > 1 /\ m.calls[i].fn = "fetchWebSearch") =>
                           \A j \in 1..(i - 1) : Over(m.calls[j])

\* C26 witness: a location search whose descriptions request is outstanding
\* after its location and details requests were answered, next to a location
\* search whose fallback request is outstanding after its details request
\* failed.
C26_Witness ==
    /\ task[1].name = "brave_local_search"
    /\ Len(task[1].calls) = 3
    /\ task[1].calls[1].outcome = "ok"
    /\ task[1].calls[2].fn = "fetchPoiDetails" /\ task[1].calls[2].outcome = "ok"
    /\ task[1].calls[3].fn = "fetchPoiDescriptions"
    /\ task[1].calls[3].outcome = "pending"
    /\ task[2].name = "brave_local_search"
    /\ Len(task[2].calls) = 3
    /\ task[2].calls[2].fn = "fetchPoiDetails"
    /\ task[2].calls[2].outcome \in {"http", "network"}
    /\ task[2].calls[3].fn = "fetchWebSearch"
    /\ task[2].calls[3].outcome = "pending"

\* C29: brave_poi_details and brave_poi_descriptions invoked with an empty
\* ids array answer 'No IDs provided to fetch details.' and 'No IDs provided
\* to fetch descriptions.' with isError=false and without any client call;
\* brave_poi_descriptions with ids whose answer holds an empty descriptions
\* map answers 'No descriptions found for the provided IDs.' with
\* isError=false.
C29_EmptyPoiAnswers ==
    \A t \in Started :
        LET m == task[t]
            emptyIds == m.args.type = "object" /\ m.args.ids = Arr(<<>>)
        IN /\ (m.name = "brave_poi_details" /\ emptyIds) =>
                 /\ m.pc = "done"
                 /\ m.response = [isError |-> FALSE,
                                  text |-> "No IDs provided to fetch details."]
                 /\ m.calls = <<>>
           /\ (m.name = "brave_poi_descriptions" /\ emptyIds) =>
                 /\ m.pc = "done"
                 /\ m.response = [isError |-> FALSE,
                                  text |-> "No IDs provided to fetch descriptions."]
                 /\ m.calls = <<>>
           /\ (/\ m.name = "brave_poi_descriptions"
               /\ Len(m.calls) = 1
               /\ m.calls[1].outcome = "ok"
               /\ m.calls[1].reply.data.descriptions = <<>>) =>
                 /\ Len(m.calls[1].ids) >= 1
                 /\ m.pc = "done"
                 /\ m.response = [isError |-> FALSE,
                                  text |-> "No descriptions found for the provided IDs."]

\* C29 witness: brave_poi_details answered {ids: []} without a call, and
\* brave_poi_descriptions answered {ids: ['b']} after the upstream returned no
\* description.
C29_Witness ==
    /\ task[1].name = "brave_poi_details"
    /\ task[1].args.ids = Arr(<<>>)
    /\ task[1].response.text = "No IDs provided to fetch details."
    /\ task[1].calls = <<>>
    /\ task[2].name = "brave_poi_descriptions"
    /\ task[2].args.ids = Arr(<<Str("b")>>)
    /\ task[2].calls[1].requested
    /\ task[2].calls[1].reply.kind = "ok"
    /\ task[2].response.text = "No descriptions found for the provided IDs."

\* The two search operations of the client.
SearchFunctions == {"fetchWebSearch", "fetchInitialLocalSearch"}

\* A call of the other search operation than c's was accepted less than
\* 1000 ms before the current instant.
OtherSearchJustAccepted(c) ==
    \E p \in AllCalls :
        LET c0 == task[p[1]].calls[p[2]]
        IN /\ c0.fn \in SearchFunctions \ {c.fn}
           /\ c0.verdict = "accept"
           /\ clock - c0.committed[1] < 1000

\* C30 as stated: a web search or a location search made less than 1000 ms
\* after an accepted call of the other operation is rejected by the limiter,
\* whatever the two query strings are.
C30_Original ==
    [][\A t \in Tasks : \A i \in NewCalls(t) :
          LET c == task'[t].calls[i]
          IN (c.fn \in SearchFunctions /\ OtherSearchJustAccepted(c)) =>
                IsRejected(c)]_vars

\* C30 amended: a web search and a location search both run the limiter under
\* the endpoint id 'web/search'; a call of either made less than 1000 ms after
\* an accepted call of the other is rejected by the limiter, whatever the two
\* query strings are, unless NODE_ENV is 'test' and the later call's query
\* does not contain 'req', in which case the limiter is skipped and the call
\* goes through.
C30_SearchesShareTracker ==
    [][\A t \in Tasks : \A i \in NewCalls(t) :
          LET c == task'[t].calls[i]
              skipped == NODE_ENV = "test" /\ ~Includes(c.query, "req")
          IN c.fn \in SearchFunctions =>
                /\ c.endpoint = "web/search"
                /\ OtherSearchJustAccepted(c) =>
                      IF skipped THEN c.verdict = "bypass" /\ c.requested
                      ELSE IsRejected(c)]_vars

\* C30 witness: a web search for 'req1' was accepted at 1000 and a location
\* search for 'pizza' at 1999 was rejected.
C30_Witness ==
    /\ task[1].name = "brave_web_search"
    /\ Len(task[1].calls) = 1
    /\ task[1].calls[1].query = "req1"
    /\ task[1].calls[1].verdict = "accept"
    /\ task[1].calls[1].committed = <<StartClock>>
    /\ task[2].name = "brave_local_search"
    /\ Len(task[2].calls) = 1
    /\ task[2].calls[1].fn = "fetchInitialLocalSearch"
    /\ task[2].calls[1].query = "pizza"
    /\ task[2].calls[1].endpoint = "web/search"
    /\ IsRejected(task[2].calls[1])
    /\ clock = StartClock + RateWindowMs - 1
    /\ trackers["web/search"].lastCallTime = StartClock

\* The most client calls an invocation of a tool makes.
MostCalls(name) == IF name = "brave_local_search" THEN 4 ELSE 1

ClientFunctions ==
    {"fetchWebSearch", "fetchInitialLocalSearch", "fetchPoiDetails",
     "fetchPoiDescriptions"}

\* C27: provided every upstream request is eventually answered or fails,
\* every invocation that has arrived eventually responds; and an invocation
\* makes at most one client call for brave_web_search, brave_poi_details and
\* brave_poi_descriptions and at most four for brave_local_search, none of
\* the four client operations being called twice.
C27_RespondsWithinBoundedCalls ==
    /\ [](\A t \in Started :
             /\ Len(task[t].calls) <= MostCalls(task[t].name)
             /\ \A fn \in ClientFunctions : Cardinality(CallsTo(t, fn)) <= 1)
    /\ (task[1].pc # "idle") ~> (task[1].pc = "done")

\* C27 witness: a location search that has responded after four client calls
\* (location search, details, descriptions, fallback web search).
C27_Witness ==
    \E t \in Tasks :
        /\ task[t].name = "brave_local_search"
        /\ task[t].pc = "done"
        /\ Len(task[t].calls) = 4
        /\ task[t].calls[1].fn = "fetchInitialLocalSearch"
        /\ task[t].calls[2].fn = "fetchPoiDetails"
        /\ task[t].calls[3].fn = "fetchPoiDescriptions"
        /\ task[t].calls[4].fn = "fetchWebSearch"
        /\ task[t].calls[4].requested
        /\ task[t].calls[4].outcome # "pending"

\* C31: when the location search of a brave_local_search invocation fails -
\* rejected by the limiter, answered with a non-2xx status or lost in
\* transport - the invocation answers isError=true with that failure's text
\* and makes no other client call.
C31_LocationSearchFailurePropagates ==
    \A t \in LocalSearches :
        LET m == task[t]
        IN CallFailed(m.calls[1]) =>
              /\ m.calls[1].fn = "fetchInitialLocalSearch"
              /\ Len(m.calls) = 1
              /\ m.pc = "done"
              /\ m.response.isError
              /\ m.response.text = errorMessage(m.calls[1].error)
              /\ m.fallback = "none"

\* C31 witness: one location search answered 401 and another rejected by the
\* limiter, each ending its invocation with its own error text.
C31_Witness ==
    /\ task[1].name = "brave_local_search"
    /\ Len(task[1].calls) = 1
    /\ task[1].calls[1].outcome = "http"
    /\ task[1].response =
           [isError |-> TRUE,
            text |-> "Brave API Error (401): API request failed - Unauthorized: Bad Key..."]
    /\ task[2].name = "brave_local_search"
    /\ Len(task[2].calls) = 1
    /\ task[2].calls[1].verdict = "reject"
    /\ task[2].response = [isError |-> TRUE, text |-> RateLimitText]

\* The location searches that went on to their fallback web search.
FellBack == {t \in LocalSearches : task[t].fallback # "none"}

\* C32: when the fallback web search of a brave_local_search invocation
\* fails, on the zero-ids path or on the enrichment-failure path, nothing
\* more is tried: the fallback is the invocation's last call and its only
\* web search, and the answer is isError=true with the text of the fallback's
\* failure.
C32_FallbackFailurePropagates ==
    \A t \in FellBack :
        LET m == task[t]
            n == Len(m.calls)
        IN /\ m.calls[n].fn = "fetchWebSearch"
           /\ CallsTo(t, "fetchWebSearch") = {n}
           /\ CallFailed(m.calls[n]) =>
                 /\ m.pc = "done"
                 /\ m.response.isError
                 /\ m.response.text = errorMessage(m.calls[n].error)
                 /\ m.error = m.calls[n].error

\* C32 witness: on the zero-ids path a fallback answered 401; on the
\* enrichment path a details fetch lost in transport was followed by a
\* fallback answered 401, and the answer carries the 401, not the transport
\* failure.
C32_Witness ==
    /\ task[1].name = "brave_local_search"
    /\ task[1].fallback = "noIds"
    /\ Len(task[1].calls) = 2
    /\ task[1].calls[2].outcome = "http"
    /\ task[1].response.isError
    /\ task[2].name = "brave_local_search"
    /\ task[2].fallback = "catch"
    /\ Len(task[2].calls) = 3
    /\ task[2].calls[2].outcome = "network"
    /\ task[2].calls[3].outcome = "http"
    /\ task[2].response =
           [isError |-> TRUE,
            text |-> "Brave API Error (401): API request failed - Unauthorized: Bad Key..."]

\* The calls made so far to c's endpoint that the limiter accepted less than
\* 1000 ms before the current instant and whose request then failed.
FailedJustAccepted(c) ==
    {p \in AllCalls :
        LET c0 == task[p[1]].calls[p[2]]
        IN /\ c0.endpoint = c.endpoint
           /\ c0.verdict = "accept"
           /\ c0.outcome \in {"http", "network"}
           /\ clock - c0.committed[1] < 1000}

\* C33 as stated: a call to an endpoint made less than 1000 ms after an
\* accepted call to it whose request failed is rejected.
C33_Original ==
    [][\A t \in Tasks : \A i \in NewCalls(t) :
          LET c == task'[t].calls[i]
          IN (c.endpoint # "" /\ FailedJustAccepted(c) # {}) => IsRejected(c)]_vars

\* C33 amended: the tracker is committed before the request is sent and a
\* failed request does not undo it: after an accepted call whose request
\* failed, the endpoint's tracker still holds that call's time (or a later
\* accepted call's) and a callCount of at least 1, and a call to the endpoint
\* less than 1000 ms after the accepted one is rejected - unless NODE_ENV is
\* 'test' and the later call's q parameter does not contain 'req', in which
\* case the limiter is skipped and the call goes through.
C33_BudgetSpentOnFailure ==
    [][\A t \in Tasks : \A i \in NewCalls(t) :
          LET c == task'[t].calls[i]
              skipped == NODE_ENV = "test" /\ ~Includes(QueryParam(c.url), "req")
          IN (c.endpoint # "" /\ FailedJustAccepted(c) # {}) =>
                /\ c.endpoint \in DOMAIN trackers
                /\ trackers[c.endpoint].callCount >= 1
                /\ \A p \in FailedJustAccepted(c) :
                      trackers[c.endpoint].lastCallTime
                          >= task[p[1]].calls[p[2]].committed[1]
                /\ IF skipped THEN c.verdict = "bypass" /\ c.requested
                   ELSE IsRejected(c)]_vars

\* C33 witness: a web search accepted at 1000 was answered 401; a web search
\* at 1999 was rejected, the tracker still reading lastCallTime 1000 and
\* callCount 1.
C33_Witness ==
    /\ Len(task[1].calls) = 1
    /\ task[1].calls[1].endpoint = "web/search"
    /\ task[1].calls[1].verdict = "accept"
    /\ task[1].calls[1].committed = <<StartClock>>
    /\ task[1].calls[1].outcome = "http"
    /\ Len(task[2].calls) = 1
    /\ task[2].calls[1].endpoint = "web/search"
    /\ IsRejected(task[2].calls[1])
    /\ clock = StartClock + RateWindowMs - 1
    /\ trackers["web/search"] = [lastCallTime |-> StartClock, callCount |-> 1]

\* The calls to endpoint e that the limiter has accepted.
AcceptedOn(e) ==
    {p \in AllCalls : /\ task[p[1]].calls[p[2]].endpoint = e
                      /\ task[p[1]].calls[p[2]].verdict = "accept"}

\* The time of the latest of the accepted calls ps, 0 when there is none.
LatestAccepted(ps) ==
    IF ps = {} THEN 0
    ELSE LET times == {task[p[1]].calls[p[2]].committed[1] : p \in ps}
         IN CHOOSE x \in times : \A y \in times : y <= x

\* C34: in every reachable state each endpoint tracker's callCount is the
\* number of calls to the endpoint accepted so far and its lastCallTime is the
\* time of the latest of them (0 if there is none); an accepted call's
\* endpoint has a tracker; and no step makes a tracker's lastCallTime or
\* callCount smaller.
C34_TrackerMatchesAcceptedCalls ==
    /\ [](/\ \A e \in DOMAIN trackers :
                /\ trackers[e].callCount = Cardinality(AcceptedOn(e))
                /\ trackers[e].lastCallTime = LatestAccepted(AcceptedOn(e))
          /\ \A p \in AllCalls :
                task[p[1]].calls[p[2]].verdict = "accept" =>
                    task[p[1]].calls[p[2]].endpoint \in DOMAIN trackers)
    /\ [][\A e \in DOMAIN trackers :
              /\ e \in DOMAIN trackers'
              /\ trackers'[e].lastCallTime >= trackers[e].lastCallTime
              /\ trackers'[e].callCount >= trackers[e].callCount]_vars

\* C34 witness: web/search accepted a call at 1000 and another at 2000, with
\* a call to local/pois accepted in between; its tracker reads lastCallTime
\* 2000 and callCount 2.
C34_Witness ==
    /\ "web/search" \in DOMAIN trackers
    /\ trackers["web/search"] = [lastCallTime |-> 2000, callCount |-> 2]
    /\ Cardinality(AcceptedOn("web/search")) = 2
    /\ "local/pois" \in DOMAIN trackers
    /\ trackers["local/pois"].callCount = 1
    /\ trackers["local/pois"].lastCallTime < 2000

\* String.prototype.startsWith
StartsWith(s, prefix) == Len(s) >= Len(prefix) /\ SubSeq(s, 1, Len(prefix)) = prefix

\* The status a failure of call c is expected to carry: 429 for a rejection
\* by the limiter, the HTTP status for a non-2xx answer, none otherwise.
ExpectedStatus(c) ==
    CASE c.verdict = "reject" -> <<429>>
      [] c.reply.kind = "http" -> <<c.reply.status>>
      [] OTHER -> <<>>

\* C35: every failure the client raises - rejection by the limiter, non-2xx
\* answer, transport failure, failure to read or to parse the body - is a
\* BraveApiError, with status 429, the HTTP status, and no status for the
\* last three; so brave_web_search, brave_poi_details and
\* brave_poi_descriptions answer such a failure with isError=true and a text
\* that begins 'Brave API Error (' and not 'Internal Server Error:'.
C35_ClientFailuresAreBraveApiErrors ==
    \A t \in Started :
        LET m == task[t]
            c == m.calls[1]
        IN (/\ m.name \in SingleCallTools
            /\ Len(m.calls) = 1
            /\ c.verdict = "reject" \/ c.reply.kind \notin {"none", "ok"}) =>
              /\ c.error.name = "BraveApiError"
              /\ c.error.status = ExpectedStatus(c)
              /\ m.pc = "done"
              /\ m.error = c.error
              /\ m.response.isError
              /\ StartsWith(m.response.text, "Brave API Error (")
              /\ ~StartsWith(m.response.text, "Internal Server Error:")

\* C35 witness: brave_web_search ended by a 2xx answer that is not JSON and
\* brave_poi_details by an answer whose body could not be read, both answered
\* with 'Brave API Error (N/A): Network error calling Brave API: ...'.
C35_Witness ==
    /\ task[1].name = "brave_web_search"
    /\ Len(task[1].calls) = 1
    /\ task[1].calls[1].reply.kind = "badjson"
    /\ task[1].response.text =
           "Brave API Error (N/A): Network error calling Brave API: "
               \o "Unexpected token < in JSON at position 0"
    /\ task[2].name = "brave_poi_details"
    /\ Len(task[2].calls) = 1
    /\ task[2].calls[1].reply.kind = "badbody"
    /\ task[2].response.text =
           "Brave API Error (N/A): Network error calling Brave API: terminated"

\* The endpoint id of each of the three calls of a successful location search.
LocalSearchEndpoint(fn) ==
    CASE fn = "fetchInitialLocalSearch" -> "web/search"
      [] fn = "fetchPoiDetails" -> "local/pois"
      [] OTHER -> "local/descriptions"

\* Another invocation than t had a call to endpoint e accepted less than
\* 1000 ms before the current instant.
CalledByAnother(t, e) ==
    \E p \in AllCalls :
        /\ p[1] # t
        /\ task[p[1]].calls[p[2]].endpoint = e
        /\ task[p[1]].calls[p[2]].verdict = "accept"
        /\ clock - task[p[1]].calls[p[2]].committed[1] < 1000

\* C36: the location search, the details fetch and the descriptions fetch of
\* a brave_local_search invocation run the limiter under three different
\* endpoint ids, web/search, local/pois and local/descriptions; so none of
\* them is rejected on account of the invocation's own calls: one of them is
\* rejected only when a call of another invocation to the same endpoint was
\* accepted less than 1000 ms before.
C36_LocalSearchCallsDoNotCollide ==
    [][\A t \in Tasks : \A i \in NewCalls(t) :
          LET c == task'[t].calls[i]
          IN (/\ task'[t].name = "brave_local_search"
              /\ c.fn \in {"fetchInitialLocalSearch", "fetchPoiDetails",
                           "fetchPoiDescriptions"}) =>
                /\ c.endpoint = LocalSearchEndpoint(c.fn)
                /\ c.verdict = "reject" => CalledByAnother(t, c.endpoint)]_vars

\* C36 witness: in production a location search had its three calls accepted
\* at the same instant, on three trackers, and answered with the local
\* results.
C36_Witness ==
    \E t \in LocalSearches :
        /\ NODE_ENV = "production"
        /\ Len(task[t].calls) = 3
        /\ \A i \in 1..3 :
              /\ task[t].calls[i].verdict = "accept"
              /\ task[t].calls[i].committed = <<StartClock>>
              /\ task[t].calls[i].outcome = "ok"
        /\ {task[t].calls[i].endpoint : i \in 1..3}
               = {"web/search", "local/pois", "local/descriptions"}
        /\ task[t].pc = "done"
        /\ ~task[t].response.isError

\* Every entry of the id list is falsy.
AllFalsy(ids) == \A i \in 1..Len(ids) : ~Truthy(ids[i])

\* C37: a POI tool invoked with a non-empty id list whose entries are all
\* falsy, such as [''], which its validator accepts, is not short-circuited:
\* the client runs the limiter and sends a request that carries no ids
\* parameter.
C37_FalsyIdsStillRequested ==
    \A t \in Started :
        LET m == task[t]
        IN (/\ m.name \in {"brave_poi_details", "brave_poi_descriptions"}
            /\ m.args.type = "object"
            /\ m.args.ids.type = "array"
            /\ Len(m.args.ids.items) >= 1
            /\ \A i \in 1..Len(m.args.ids.items) :
                  m.args.ids.items[i] = Str("")) =>
              /\ ~RefusedAsInvalid(m)
              /\ Len(m.calls) = 1
              /\ m.calls[1].ids = m.args.ids.items
              /\ AllFalsy(m.calls[1].ids)
              /\ m.calls[1].verdict \in {"accept", "bypass"}
              /\ m.calls[1].verdict = "accept" <=> NODE_ENV = "production"
              /\ m.calls[1].verdict = "accept" =>
                    /\ m.calls[1].endpoint \in DOMAIN trackers
                    /\ trackers[m.calls[1].endpoint].callCount = 1
              /\ m.calls[1].requested
              /\ m.calls[1].url.ids = <<>>
              /\ m.pc = "inflight"

\* C37 witness: in production brave_poi_details with {ids: ['']} spent the
\* local/pois budget and has a request without ids parameter in flight.
C37_Witness ==
    /\ NODE_ENV = "production"
    /\ task[1].name = "brave_poi_details"
    /\ task[1].args.ids = Arr(<<Str("")>>)
    /\ Len(task[1].calls) = 1
    /\ task[1].calls[1].verdict = "accept"
    /\ task[1].calls[1].requested
    /\ task[1].calls[1].url.ids = <<>>
    /\ task[1].calls[1].url.path = <<"res", "v1", "local", "pois">>
    /\ trackers = ("local/pois" :> [lastCallTime |-> StartClock, callCount |-> 1])

\* The limiter is to be skipped for call c: NODE_ENV is 'test' and the q
\* parameter of its URL, empty when the URL has none, does not contain 'req'.
Skipped(c) == NODE_ENV = "test" /\ ~Includes(QueryParam(c.url), "req")

\* C38: under NODE_ENV=test a call that reaches callBraveApi with a q
\* parameter that does not contain 'req' - every POI call among them, having
\* no q - is sent without being rejected, and a step all of whose calls are
\* of that kind leaves every tracker as it was, creating none; every other
\* call is decided by the limiter before any request is sent: it is sent only
\* if accepted, its tracker committed at that instant.
C38_TestBypass ==
    [][\A t \in Tasks :
          LET new == {task'[t].calls[i] : i \in NewCalls(t)}
              reached == {c \in new : c.endpoint # ""}
          IN /\ \A c \in reached :
                   IF Skipped(c)
                   THEN c.verdict = "bypass" /\ c.requested /\ c.committed = <<>>
                   ELSE /\ c.verdict \in {"accept", "reject"}
                        /\ c.requested <=> c.verdict = "accept"
                        /\ c.verdict = "accept" =>
                              /\ c.committed = <<clock>>
                              /\ trackers'[c.endpoint].lastCallTime = clock
                        /\ c.verdict = "reject" => Delta(c) < 1000
             /\ (reached # {} /\ \A c \in reached : Skipped(c)) =>
                   trackers' = trackers
             /\ \A c \in reached :
                   c.fn \in PoiFunctions => (Skipped(c) <=> NODE_ENV = "test")]_vars

\* C38 witness: under NODE_ENV=test a web search for 'req1' was accepted and
\* its tracker committed; at the same instant a web search for 'pizza' was
\* sent without the limiter, and the tracker map is as the first call left it.
C38_Witness ==
    /\ NODE_ENV = "test"
    /\ Len(task[1].calls) = 1
    /\ task[1].calls[1].fn = "fetchWebSearch"
    /\ task[1].calls[1].query = "req1"
    /\ task[1].calls[1].verdict = "accept"
    /\ Len(task[2].calls) = 1
    /\ task[2].calls[1].fn = "fetchWebSearch"
    /\ task[2].calls[1].query = "pizza"
    /\ task[2].calls[1].verdict = "bypass"
    /\ task[2].calls[1].requested
    /\ clock = StartClock
    /\ trackers = ("web/search" :> [lastCallTime |-> StartClock, callCount |-> 1])

====
